---------------------------- MODULE Spec2Model ----------------------------
(***************************************************************************)
(* Model of the P_USDExporter post-processing tools:                       *)
(*   - parse_name_suffixes            (chasers/Clone_USD_StageAssembler.py) *)
(*   - auto_assemble_stage            (chasers/Clone_USD_StageAssembler.py) *)
(*   - _strip_root_wrapper and remap  (chasers/Clone_USD_PropertiesChaser.py)*)
(*   - _process_variants              (chasers/Clone_USD_PropertiesChaser.py)*)
(*                                                                         *)
(* A name is a sequence of tokens.  A token is either one of the suffix    *)
(* marker words the regular expressions of parse_name_suffixes look for    *)
(* (in several letter cases) or a single character.  A path is a sequence  *)
(* of names of path components.                                            *)
(***************************************************************************)
EXTENDS Integers, Sequences, FiniteSets, TLC

VARIABLES
    p_pc,       \* suffix parser run: "input", "parsed", "reparsed"
    p_name,     \* the name handed to parse_name_suffixes
    p_first,    \* parse_name_suffixes(p_name)
    p_second,   \* parse_name_suffixes(p_first.base)
    s_pc,       \* _strip_root_wrapper: the statement about to run
    s_doc,      \* the root layer: prim specs, class specifiers, relationship targets
    s_default,  \* layer.defaultPrim
    s_loc,      \* locals of _strip_root_wrapper computed before the namespace edit
    s_i,        \* loop index of the copy loops of _strip_root_fallback
    s_nested_ok,\* mtl_nested_ok of _strip_root_fallback
    s_hist,     \* what the run observed: the document at entry, how it moved
    v_pc,       \* _process_variants: "collect", "groups", "done"
    v_doc,      \* the root layer _process_variants restructures
    v_groups,   \* variant_groups, in insertion order
    v_i,        \* position of the loop over variant_groups.items()
    v_hist,     \* what the run observed: the document at entry, the groups converted
    a_pc,       \* auto_assemble_stage: "start", "run", "done"
    a_in,       \* the export directory: hierarchy table, files, what the files hold
    a_stage,    \* the stage being assembled
    a_created,  \* created_prims
    a_stack,    \* the calls and loop bodies still to run, first to run first
    a_default,  \* the default prim of the stage
    a_hist,     \* what the run observed: the prims given a variant set, and from which items
    a_seen,     \* what the run observed: the names it was called for or met as group items
    h_pc,       \* PostExport: the step about to run
    h_entries,  \* primsToNodeHandles.items(), by what Step 1 meets at each entry
    h_i,        \* position of the loop of Step 1
    h_processed,\* processed
    h_raised,   \* the steps that raised an exception
    h_log,      \* the steps entered, in order
    h_ret,      \* the value PostExport returned
    j_pc,       \* _remap_skeleton_joint_tokens: "token", "done"
    j_arg,      \* the token and the arguments _remap_skeleton_joint_token is called with
    j_out,      \* the token it returns
    f_pc,       \* _flatten_scene_wrapper_under_skel_root: the statement about to run
    f_doc,      \* the root layer of a document whose /root is a SkelRoot
    f_default,  \* its layer.defaultPrim
    f_phase,    \* which wrapper is being emptied: "collapse" (nested /root) or "flatten" (scene)
    f_src,      \* src_parent_path of _move_children_to_parent
    f_names,    \* child_names of _move_children_to_parent
    f_i,        \* position of its copy loop
    f_moved,    \* the children it reports as moved
    f_hist      \* what the run observed: the document at entry, failed copies

parseVars == <<p_pc, p_name, p_first, p_second>>
stripVars == <<s_pc, s_doc, s_default, s_loc, s_i, s_nested_ok, s_hist>>

variantVars == <<v_pc, v_doc, v_groups, v_i, v_hist>>

assembleVars == <<a_pc, a_in, a_stage, a_created, a_stack, a_default, a_hist, a_seen>>

hookVars == <<h_pc, h_entries, h_i, h_processed, h_raised, h_log, h_ret>>

jointVars == <<j_pc, j_arg, j_out>>

flattenVars == <<f_pc, f_doc, f_default, f_phase, f_src, f_names, f_i, f_moved, f_hist>>

vars == <<parseVars, stripVars, variantVars, assembleVars, hookVars, jointVars, flattenVars>>

\* what a step of one tool leaves alone: the state of the other tools
ParseFrame == UNCHANGED <<stripVars, variantVars, assembleVars, hookVars, jointVars, flattenVars>>
StripFrame == UNCHANGED <<parseVars, variantVars, assembleVars, hookVars, jointVars, flattenVars>>
VariantFrame == UNCHANGED <<parseVars, stripVars, assembleVars, hookVars, jointVars, flattenVars>>
AssembleFrame == UNCHANGED <<parseVars, stripVars, variantVars, hookVars, jointVars, flattenVars>>
HookFrame == UNCHANGED <<parseVars, stripVars, variantVars, assembleVars, jointVars, flattenVars>>
JointFrame == UNCHANGED <<parseVars, stripVars, variantVars, assembleVars, hookVars, flattenVars>>
FlattenFrame == UNCHANGED <<parseVars, stripVars, variantVars, assembleVars, hookVars, jointVars>>

-----------------------------------------------------------------------------
(* Bounds *)

\* longest name, in tokens, handed to the suffix parser
MaxNameLen == 5

\* most children under the /root wrapper of an exported document
MaxChildren == 3

\* most children of the prim whose children _process_variants groups
MaxVariantChildren == 4

\* most entries of a hierarchy table, and most files of an export directory
MaxEntries == 3

\* most entries of a deeper hierarchy table, whose entries all have a file
MaxDeepEntries == 4

\* most entries of a hierarchy table with arbitrary parent links
MaxTableEntries == 3

\* most entries of a hierarchy table checked for termination
MaxCycleEntries == 3

\* most entries of primsToNodeHandles
MaxHookEntries == 3

\* most components of a joint token
MaxJointDepth == 3

\* most children under the /root of a skeletal document
MaxSkelChildren == 3

-----------------------------------------------------------------------------
(* Tokens and names *)

\* Python None
None == "None"

\* None in the variant position of a parse result: a variant tag is a non-empty
\* sequence of tokens (an empty tag is replaced by "1")
NoVariant == <<>>

PayloadMarkers == {"_PAYLOAD", "_payload"}
PurposeMarkers == {"_RENDER", "_proxy", "_GUIDE"}
VariantMarkers == {"_VARIANT", "_variant"}
Markers == PayloadMarkers \cup PurposeMarkers \cup VariantMarkers

\* single characters: a letter, a digit, the underscore (all matched by \w)
\* and a character \w does not match
AlnumChars == {"A", "1"}
WordChars == AlnumChars \cup {"_"}
NonWordChars == {"-"}

Tokens == Markers \cup WordChars \cup NonWordChars

\* the tokens the suffix parser runs draw names from
ParseAlphabet == Tokens \ {"_GUIDE"}

\* \w matches every character of the token
IsWord(t) == t \notin NonWordChars

\* str.lower() of the purpose group captured by _(RENDER|PROXY|GUIDE)
Lower(t) ==
    CASE t = "_RENDER" -> "render"
      [] t = "_proxy"  -> "proxy"
      [] t = "_GUIDE"  -> "guide"
      [] OTHER         -> None

Front(s) == SubSeq(s, 1, Len(s) - 1)
Last(s) == s[Len(s)]

-----------------------------------------------------------------------------
(* parse_name_suffixes *)

\* re.search(r'_PAYLOAD$', base_name, re.IGNORECASE)
payload_match(name) == Len(name) > 0 /\ Last(name) \in PayloadMarkers

\* re.search(r'_(RENDER|PROXY|GUIDE)$', base_name, re.IGNORECASE)
purpose_match(name) == Len(name) > 0 /\ Last(name) \in PurposeMarkers

\* re.search(r'_VARIANT(\w*)$', base_name, re.IGNORECASE): the positions where
\* the marker starts and only \w characters follow up to the end of the name
VariantStarts(name) ==
    {i \in 1..Len(name) :
        /\ name[i] \in VariantMarkers
        /\ \A j \in (i + 1)..Len(name) : IsWord(name[j])}

\* re.search returns the leftmost match; 0 when there is none
variant_match(name) ==
    IF VariantStarts(name) = {} THEN 0
    ELSE CHOOSE i \in VariantStarts(name) : \A j \in VariantStarts(name) : i <= j

\* the VARIANT step (lines 113-117): base and variant of a name
StripVariant(name) ==
    LET vi == variant_match(name)
        tag == SubSeq(name, vi + 1, Len(name))
    IN  IF vi = 0 THEN [base |-> name, variant |-> NoVariant]
        ELSE [base |-> SubSeq(name, 1, vi - 1),
              variant |-> IF tag = <<>> THEN <<"1">> ELSE tag]

\* the PURPOSE step (lines 107-111)
StripPurpose(name) ==
    IF purpose_match(name)
    THEN [base |-> Front(name), purpose |-> Lower(Last(name))]
    ELSE [base |-> name, purpose |-> None]

\* the PAYLOAD step (lines 101-105)
StripPayload(name) ==
    IF payload_match(name)
    THEN [base |-> Front(name), is_payload |-> TRUE]
    ELSE [base |-> name, is_payload |-> FALSE]

\* a plausible slip: the VARIANT step run before the PURPOSE step
parse_variant_before_purpose(name) ==
    LET y == StripPayload(name)
        v == StripVariant(y.base)
        p == StripPurpose(v.base)
    IN  [base |-> p.base, purpose |-> p.purpose,
         variant |-> v.variant, is_payload |-> y.is_payload]

\* Parse order: PAYLOAD -> PURPOSE -> VARIANT (right to left)
parse_name_suffixes(name) ==
    LET y == StripPayload(name)
        p == StripPurpose(y.base)
        v == StripVariant(p.base)
    IN  [base |-> v.base, purpose |-> p.purpose,
         variant |-> v.variant, is_payload |-> y.is_payload]

NoResult == [base |-> <<>>, purpose |-> None, variant |-> NoVariant, is_payload |-> FALSE]

-----------------------------------------------------------------------------
(* Documents: the prim specs of a layer.                                   *)
(* A document is a record: nodes, the set of paths that hold a prim spec;  *)
(* cls, the paths whose specifier is Sdf.SpecifierClass; rels, the target  *)
(* list of the relationship or attribute connection authored on a prim;    *)
(* order, the document order of names (nameChildren lists follow it).      *)
(* A target is a prim path with or without a trailing property part        *)
(* ("/root/mtl" or "/root/mtl.attr").                                      *)

\* Sdf.Path("/root")
Root == <<"root">>

mtl_scope_names == {"mtl", "Looks", "Materials"}

\* names the exporter gives to the children of the wrapper
ChildNames == {"Hero", "Prop", "_class_A", "mtl", "Looks", "root"}

\* name.startswith("_class_")
StartsWithClassPrefix(name) == name \in {"_class_A"}

Parent(p) == SubSeq(p, 1, Len(p) - 1)

\* p is a or lies below a
Under(p, a) == Len(p) >= Len(a) /\ SubSeq(p, 1, Len(a)) = a

Rebase(p, src, dst) == dst \o SubSeq(p, Len(src) + 1, Len(p))

Subtree(doc, a) == {p \in doc.nodes : Under(p, a)}

\* [c.name for c in spec.nameChildren]
nameChildren(doc, p) ==
    SelectSeq(doc.order, LAMBDA n : (p \o <<n>>) \in doc.nodes)

\* stage.RemovePrim(path) / del layer.rootPrims[name]: the spec and all below it
RemovePrim(doc, a) ==
    [doc EXCEPT !.nodes = doc.nodes \ Subtree(doc, a),
                !.cls = {p \in doc.cls : ~Under(p, a)},
                !.rels = [o \in {q \in DOMAIN doc.rels : ~Under(q, a)} |-> doc.rels[o]]]

\* the specs of the subtree at src, re-rooted at dst (targets are not rewritten)
Rerooted(doc, src, dst) ==
    [nodes |-> {Rebase(p, src, dst) : p \in Subtree(doc, src)},
     cls |-> {Rebase(p, src, dst) : p \in {q \in doc.cls : Under(q, src)}},
     rels |-> [o \in {Rebase(q, src, dst) : q \in {r \in DOMAIN doc.rels : Under(r, src)}}
                 |-> doc.rels[src \o SubSeq(o, Len(dst) + 1, Len(o))]]]

Merge(f, g) == [x \in (DOMAIN f) \cup (DOMAIN g) |-> IF x \in DOMAIN g THEN g[x] ELSE f[x]]

\* Sdf.CopySpec(layer, src, layer, dst) succeeding: the destination spec is
\* replaced by a deep copy of the source
CopySpec(doc, src, dst) ==
    LET copy == Rerooted(doc, src, dst)
        rest == RemovePrim(doc, dst)
    IN  [doc EXCEPT !.nodes = rest.nodes \cup copy.nodes,
                    !.cls = rest.cls \cup copy.cls,
                    !.rels = Merge(rest.rels, copy.rels)]

\* Sdf.CopySpec can succeed only with a source spec and a parent for the copy
CanCopy(doc, src, dst) ==
    /\ src \in doc.nodes
    /\ Len(dst) = 1 \/ Parent(dst) \in doc.nodes

\* one namespace edit of a batch: the subtree moves, the source is gone
MoveSpec(doc, src, dst) ==
    LET copy == Rerooted(doc, src, dst)
        rest == RemovePrim(doc, src)
    IN  [doc EXCEPT !.nodes = rest.nodes \cup copy.nodes,
                    !.cls = rest.cls \cup copy.cls,
                    !.rels = Merge(rest.rels, copy.rels)]

\* an edit of a batch is valid when its source exists, nothing sits at its
\* destination, the destination has a parent and is not inside the source
CanMove(doc, src, dst) ==
    /\ src \in doc.nodes
    /\ dst \notin doc.nodes
    /\ Len(dst) = 1 \/ Parent(dst) \in doc.nodes
    /\ ~Under(dst, src)

RECURSIVE ApplyEdits(_, _)
\* layer.Apply(edit): the edits in order, all or none
ApplyEdits(doc, edits) ==
    IF edits = <<>> THEN [ok |-> TRUE, doc |-> doc]
    ELSE LET e == Head(edits)
         IN  IF CanMove(doc, e.src, e.dst)
             THEN ApplyEdits(MoveSpec(doc, e.src, e.dst), Tail(edits))
             ELSE [ok |-> FALSE, doc |-> doc]

-----------------------------------------------------------------------------
(* Path Reference Remapper *)

\* an optional argument: {} for None, {v} for the value v
NoArg == {}

\* path_str.startswith(prefix + "/")
StartsWithSlash(t, prefix) ==
    Len(t.prim) > Len(prefix) /\ SubSeq(t.prim, 1, Len(prefix)) = prefix

\* path_str == prefix
EqualsPath(t, prefix) == t.prim = prefix /\ ~t.prop

\* path_str[len(prefix):] appended to the path new_prefix
ReplacePrefix(t, prefix, new_prefix) ==
    [t EXCEPT !.prim = Rebase(t.prim, prefix, new_prefix)]

\* the material names whose prefix the path starts with or equals (line 501)
MtlHits(t, strip_prefix, mtl_names) ==
    {k \in 1..Len(mtl_names) :
        \/ StartsWithSlash(t, strip_prefix \o <<mtl_names[k]>>)
        \/ EqualsPath(t, strip_prefix \o <<mtl_names[k]>>)}

\* a plausible slip: the strip rule tried before the material nesting rule
remap_strip_rule_first(t, strip_prefix, nest_target, mtl_names, replacement_prefix) ==
    IF StartsWithSlash(t, strip_prefix)
    THEN [changed |-> TRUE, path |-> ReplacePrefix(t, strip_prefix, <<>>)]
    ELSE [changed |-> FALSE, path |-> t]

\* _remap_path_str: the remapped path, or changed = FALSE for the None result
remap_path_str(t, strip_prefix, nest_target, mtl_names, replacement_prefix) ==
    LET hits == IF nest_target # None /\ mtl_names # <<>>
                THEN MtlHits(t, strip_prefix, mtl_names) ELSE {}
    IN  IF hits # {}
        THEN LET k == CHOOSE i \in hits : \A j \in hits : i <= j
             IN  [changed |-> TRUE,
                  path |-> ReplacePrefix(t, strip_prefix \o <<mtl_names[k]>>,
                                         <<nest_target, mtl_names[k]>>)]
        ELSE IF StartsWithSlash(t, strip_prefix)
        THEN [changed |-> TRUE,
              path |-> IF replacement_prefix = NoArg
                       THEN ReplacePrefix(t, strip_prefix, <<>>)
                       ELSE ReplacePrefix(t, strip_prefix,
                                          CHOOSE r \in replacement_prefix : TRUE)]
        ELSE IF EqualsPath(t, strip_prefix)
        THEN [changed |-> TRUE,
              path |-> IF replacement_prefix = NoArg
                       THEN [t EXCEPT !.prim = <<>>]
                       ELSE [t EXCEPT !.prim = CHOOSE r \in replacement_prefix : TRUE]]
        ELSE [changed |-> FALSE, path |-> t]

\* _remap_paths_in_place: every target list of every prim of the stage
remap_paths_in_place(doc, strip_prefix, nest_target, mtl_names, replacement_prefix) ==
    [doc EXCEPT !.rels =
        [o \in DOMAIN doc.rels |->
            [i \in 1..Len(doc.rels[o]) |->
                remap_path_str(doc.rels[o][i], strip_prefix, nest_target,
                               mtl_names, replacement_prefix).path]]]

\* the targets of the document that name an existing prim
ResolvedCount(doc) ==
    Cardinality({oi \in {<<o, i>> : o \in DOMAIN doc.rels, i \in 1..1} :
                    /\ oi[2] <= Len(doc.rels[oi[1]])
                    /\ doc.rels[oi[1]][oi[2]].prim \in doc.nodes})

-----------------------------------------------------------------------------
(* _strip_root_wrapper, non-skeletal documents *)

RECURSIVE DeepestWrapper(_, _)
\* lines 225-233: descend while the only child is named root
DeepestWrapper(doc, current_path) ==
    IF nameChildren(doc, current_path) = <<"root">>
    THEN DeepestWrapper(doc, current_path \o <<"root">>)
    ELSE current_path

\* a plausible slip: material children nested whenever there is content
nest_mtl_any_content(content_children, mtl_children) ==
    Len(content_children) >= 1 /\ Len(mtl_children) > 0

\* line 267
nest_mtl_of(content_children, mtl_children) ==
    Len(content_children) = 1 /\ Len(mtl_children) > 0

\* lines 236-267: the locals computed from the wrapper's children
StripLocals(doc) ==
    LET current_path == DeepestWrapper(doc, Root)
        all_children == nameChildren(doc, current_path)
        mtl_children == SelectSeq(all_children, LAMBDA n : n \in mtl_scope_names)
        main_children == SelectSeq(all_children, LAMBDA n : n \notin mtl_scope_names)
        content_children ==
            SelectSeq(main_children,
                      LAMBDA n : /\ (current_path \o <<n>>) \notin doc.cls
                                 /\ ~StartsWithClassPrefix(n))
    IN  [current_path |-> current_path,
         all_children |-> all_children,
         main_children |-> main_children,
         content_children |-> content_children,
         mtl_children |-> mtl_children,
         default_name |-> IF content_children # <<>> THEN content_children[1]
                          ELSE IF main_children # <<>> THEN main_children[1]
                          ELSE None,
         nest_mtl |-> nest_mtl_of(content_children, mtl_children)]

\* lines 275-295: the batch of moves
BuildEdit(loc) ==
    [i \in 1..Len(loc.main_children) |->
        [src |-> loc.current_path \o <<loc.main_children[i]>>,
         dst |-> <<loc.main_children[i]>>]]
    \o
    [i \in 1..Len(loc.mtl_children) |->
        [src |-> loc.current_path \o <<loc.mtl_children[i]>>,
         dst |-> IF loc.nest_mtl
                 THEN <<loc.default_name, loc.mtl_children[i]>>
                 ELSE <<loc.mtl_children[i]>>]]

NoLocals ==
    [current_path |-> <<>>, all_children |-> <<>>, main_children |-> <<>>,
     content_children |-> <<>>, mtl_children |-> <<>>, default_name |-> None,
     nest_mtl |-> FALSE]

\* lines 219-273: find the wrapper, give up on an empty one or one with no
\* main child, otherwise go on to the namespace edit
StripBegin ==
    /\ s_pc = "start"
    /\ LET loc == StripLocals(s_doc)
       IN  IF \/ Root \notin s_doc.nodes
              \/ loc.all_children = <<>>
              \/ loc.main_children = <<>>
           THEN /\ s_pc' = "done"
                /\ s_hist' = [s_hist EXCEPT !.path = "skipped"]
                /\ UNCHANGED s_loc
           ELSE /\ s_pc' = "apply"
                /\ s_loc' = loc
                /\ UNCHANGED s_hist
    /\ UNCHANGED <<s_doc, s_default, s_i, s_nested_ok>>
    /\ StripFrame

\* line 298, layer.Apply(edit) returns True
ApplyOk ==
    /\ s_pc = "apply"
    /\ ApplyEdits(s_doc, BuildEdit(s_loc)).ok
    /\ s_doc' = ApplyEdits(s_doc, BuildEdit(s_loc)).doc
    /\ s_pc' = "setdefault"
    /\ s_hist' = [s_hist EXCEPT !.path = "atomic"]
    /\ UNCHANGED <<s_default, s_loc, s_i, s_nested_ok>>
    /\ StripFrame

\* line 298, layer.Apply(edit) returns False (an invalid edit, or the layer
\* refuses the batch): nothing moved, _strip_root_fallback is entered
ApplyFail ==
    /\ s_pc = "apply"
    /\ s_pc' = "fb_main"
    /\ s_i' = 1
    /\ s_nested_ok' = FALSE
    /\ s_hist' = [s_hist EXCEPT !.path = "fallback"]
    /\ UNCHANGED <<s_doc, s_default, s_loc>>
    /\ StripFrame

\* lines 467-470: one turn of the loop over main_children; the result of
\* CopySpec is not looked at
FallbackCopyMain ==
    /\ s_pc = "fb_main"
    /\ LET name == s_loc.main_children[s_i]
           src == s_loc.current_path \o <<name>>
           dst == <<name>>
       IN  \E ok \in BOOLEAN :
            /\ ok => CanCopy(s_doc, src, dst)
            /\ s_doc' = IF ok THEN CopySpec(s_doc, src, dst) ELSE s_doc
            /\ s_hist' = IF ok THEN s_hist ELSE [s_hist EXCEPT !.copy_failed = TRUE]
    /\ IF s_i < Len(s_loc.main_children)
       THEN s_i' = s_i + 1 /\ s_pc' = "fb_main"
       ELSE s_i' = 1 /\ s_pc' = IF s_loc.mtl_children = <<>> THEN "fb_remove" ELSE "fb_mtl"
    /\ UNCHANGED <<s_default, s_loc, s_nested_ok>>
    /\ StripFrame

\* lines 472-485: one turn of the loop over mtl_children
FallbackCopyMtl ==
    /\ s_pc = "fb_mtl"
    /\ LET name == s_loc.mtl_children[s_i]
           src == s_loc.current_path \o <<name>>
           nested == <<s_loc.default_name, name>>
           flat == <<name>>
       IN  IF s_loc.nest_mtl
           THEN \E ok \in BOOLEAN :
                 /\ ok => CanCopy(s_doc, src, nested)
                 /\ IF ok
                    THEN /\ s_doc' = CopySpec(s_doc, src, nested)
                         /\ s_nested_ok' = TRUE
                         /\ UNCHANGED s_hist
                    ELSE /\ \E ok2 \in BOOLEAN :
                              /\ ok2 => CanCopy(s_doc, src, flat)
                              /\ s_doc' = IF ok2 THEN CopySpec(s_doc, src, flat) ELSE s_doc
                         /\ s_hist' = [s_hist EXCEPT !.copy_failed = TRUE]
                         /\ UNCHANGED s_nested_ok
           ELSE /\ \E ok \in BOOLEAN :
                     /\ ok => CanCopy(s_doc, src, flat)
                     /\ s_doc' = IF ok THEN CopySpec(s_doc, src, flat) ELSE s_doc
                     /\ s_hist' = IF ok THEN s_hist
                                  ELSE [s_hist EXCEPT !.copy_failed = TRUE]
                /\ UNCHANGED s_nested_ok
    /\ IF s_i < Len(s_loc.mtl_children)
       THEN s_i' = s_i + 1 /\ s_pc' = "fb_mtl"
       ELSE s_i' = 1 /\ s_pc' = "fb_remove"
    /\ UNCHANGED <<s_default, s_loc>>
    /\ StripFrame

\* line 487: self.stage.RemovePrim(Sdf.Path("/root"))
FallbackRemoveRoot ==
    /\ s_pc = "fb_remove"
    /\ s_doc' = RemovePrim(s_doc, Root)
    /\ s_pc' = "fb_remap"
    /\ UNCHANGED <<s_default, s_loc, s_i, s_nested_ok, s_hist>>
    /\ StripFrame

\* lines 489-494: the fallback's own remap, nesting only if a nested copy worked
FallbackRemap ==
    /\ s_pc = "fb_remap"
    /\ s_doc' = remap_paths_in_place(s_doc, s_loc.current_path,
                    IF s_nested_ok THEN s_loc.default_name ELSE None,
                    s_loc.mtl_children, NoArg)
    /\ s_pc' = "setdefault"
    /\ UNCHANGED <<s_default, s_loc, s_i, s_nested_ok, s_hist>>
    /\ StripFrame

\* lines 305-307: layer.defaultPrim = default_name
SetDefault ==
    /\ s_pc = "setdefault"
    /\ s_default' = s_loc.default_name
    /\ s_hist' = [s_hist EXCEPT !.designated = TRUE]
    /\ s_pc' = "rmroot"
    /\ UNCHANGED <<s_doc, s_loc, s_i, s_nested_ok>>
    /\ StripFrame

\* lines 309-316: del layer.rootPrims["root"] when /root is still there
RemoveRoot ==
    /\ s_pc = "rmroot"
    /\ s_doc' = IF Root \in s_doc.nodes THEN RemovePrim(s_doc, Root) ELSE s_doc
    /\ s_pc' = "remap"
    /\ UNCHANGED <<s_default, s_loc, s_i, s_nested_ok, s_hist>>
    /\ StripFrame

\* lines 318-332: the Reference Remapper, nesting if nest_mtl
Remap ==
    /\ s_pc = "remap"
    /\ s_doc' = remap_paths_in_place(s_doc, s_loc.current_path,
                    IF s_loc.nest_mtl THEN s_loc.default_name ELSE None,
                    s_loc.mtl_children, NoArg)
    /\ s_pc' = "done"
    /\ UNCHANGED <<s_default, s_loc, s_i, s_nested_ok, s_hist>>
    /\ StripFrame

-----------------------------------------------------------------------------
(* The documents the export hook is handed *)

\* sequences of distinct children names, at most n long
ChildLists(n) ==
    UNION {{s \in [1..k -> ChildNames] : \A i, j \in 1..k : i # j => s[i] # s[j]} :
              k \in 0..n}

RECURSIVE WrapperChain(_)
\* /root, /root/root, ... down to the wrapper
WrapperChain(depth) ==
    IF depth = 0 THEN <<>> ELSE WrapperChain(depth - 1) \o <<"root">>

\* an exported document: a chain of depth wrappers, the children in order,
\* a material under every material scope, optionally a material scope of its
\* own under Hero and the class specifier on Prop.  The first child may carry
\* one relationship, whose target is a prim (or a property of a prim) that the
\* exporter wrote under the wrapper.
ExportedDoc(depth, children, heroHasMtl, propIsClass) ==
    LET w == WrapperChain(depth)
        kids == {w \o <<children[i]>> : i \in 1..Len(children)}
    IN  [nodes |-> {WrapperChain(d) : d \in 1..depth} \cup kids
                   \cup {k \o <<"Mat">> : k \in {q \in kids : Last(q) \in mtl_scope_names}}
                   \cup (IF heroHasMtl THEN {w \o <<"Hero", "mtl">>} ELSE {}),
         cls |-> IF propIsClass THEN {w \o <<"Prop">>} ELSE {},
         rels |-> << >>,
         order |-> children
                   \o (IF \E i \in 1..Len(children) : children[i] = "root"
                       THEN <<>> ELSE <<"root">>)
                   \o <<"Mat">>
                   \o (IF \E i \in 1..Len(children) : children[i] = "mtl"
                       THEN <<>> ELSE <<"mtl">>)]

StripIdle ==
    /\ s_pc = "idle"
    /\ s_doc = [nodes |-> {}, cls |-> {}, rels |-> << >>, order |-> <<>>]
    /\ s_default = None
    /\ s_loc = NoLocals
    /\ s_i = 1
    /\ s_nested_ok = FALSE
    /\ s_hist = [path |-> "none", designated |-> FALSE, copy_failed |-> FALSE,
                 doc0 |-> [nodes |-> {}, cls |-> {}, rels |-> << >>, order |-> <<>>]]

StripInit ==
    /\ s_pc = "start"
    /\ \E depth \in 1..2, children \in ChildLists(MaxChildren),
          heroHasMtl \in BOOLEAN, propIsClass \in BOOLEAN :
        /\ heroHasMtl => \E i \in 1..Len(children) : children[i] = "Hero"
        /\ propIsClass => \E i \in 1..Len(children) : children[i] = "Prop"
        /\ LET d == ExportedDoc(depth, children, heroHasMtl, propIsClass)
               w == WrapperChain(depth)
           IN  \E rels \in {<< >>} \cup
                     {[o \in {w \o <<children[1]>>} |-> <<t>>] :
                        t \in {[prim |-> p, prop |-> b] :
                                  p \in {q \in d.nodes : Len(q) > depth},
                                  b \in BOOLEAN}} :
                 /\ s_doc = [d EXCEPT !.rels = rels]
                 /\ s_hist = [path |-> "none", designated |-> FALSE,
                              copy_failed |-> FALSE,
                              doc0 |-> [d EXCEPT !.rels = rels]]
    /\ s_default = "root"
    /\ s_loc = NoLocals
    /\ s_i = 1
    /\ s_nested_ok = FALSE

StripNext ==
    \/ StripBegin
    \/ ApplyOk
    \/ ApplyFail
    \/ FallbackCopyMain
    \/ FallbackCopyMtl
    \/ FallbackRemoveRoot
    \/ FallbackRemap
    \/ SetDefault
    \/ RemoveRoot
    \/ Remap

-----------------------------------------------------------------------------
(* _process_variants: the document it works on.  A document has prims (the *)
(* paths of its prim specs outside variants), order (the order in which    *)
(* stage.Traverse() visits them), vsets (the prims that carry the variant   *)
(* set "modelVariant"), variants (the variants added to it), copies (the    *)
(* prim specs copied into a variant) and sel (the variant selection).       *)

EmptyVariantDoc ==
    [prims |-> {}, order |-> <<>>, vsets |-> {}, variants |-> {}, copies |-> {}, sel |-> {}]

\* re.match(r'^(.+?)_VARIANT(\w*)$', prim.GetName(), re.IGNORECASE): the
\* positions where the marker starts after a non-empty base and only \w
\* characters follow up to the end of the name
VariantChildStarts(name) ==
    {i \in 2..Len(name) :
        /\ name[i] \in VariantMarkers
        /\ \A j \in (i + 1)..Len(name) : IsWord(name[j])}

\* the lazy (.+?) takes the shortest base; 0 when the name does not match
variant_child_match(name) ==
    IF VariantChildStarts(name) = {} THEN 0
    ELSE CHOOSE i \in VariantChildStarts(name) : \A j \in VariantChildStarts(name) : i <= j

\* match.group(1)
match_base(name) == SubSeq(name, 1, variant_child_match(name) - 1)

\* var_name = match.group(2) if match.group(2) else "1"
var_name_of(name) ==
    LET tag == SubSeq(name, variant_child_match(name) + 1, Len(name))
    IN  IF tag = <<>> THEN <<"1">> ELSE tag

\* variant_groups[key].append((var_name, prim.GetPath())), keys in insertion order
AppendToGroup(groups, parent, base, entry) ==
    IF \E k \in 1..Len(groups) : groups[k].parent = parent /\ groups[k].base = base
    THEN [k \in 1..Len(groups) |->
            IF groups[k].parent = parent /\ groups[k].base = base
            THEN [groups[k] EXCEPT !.variants = Append(@, entry)]
            ELSE groups[k]]
    ELSE Append(groups, [parent |-> parent, base |-> base, variants |-> <<entry>>])

\* the collection loop over stage.Traverse() (lines 736-749), from position i on
RECURSIVE CollectVariantGroups(_, _, _)

CollectVariantGroups(order, i, groups) ==
    IF i > Len(order) THEN groups
    ELSE LET path == order[i]
             name == Last(path)
         IN  IF variant_child_match(name) = 0 \/ Len(path) < 2
             THEN CollectVariantGroups(order, i + 1, groups)
             ELSE CollectVariantGroups(order, i + 1,
                      AppendToGroup(groups, Front(path), match_base(name),
                                    [var_name |-> var_name_of(name), path |-> path]))

\* self.stage.RemovePrim(child_path) for every member of a group
RemoveMembers(doc, members) ==
    LET gone(p) == \E k \in 1..Len(members) : Under(p, members[k].path)
    IN  [doc EXCEPT !.prims = {p \in @ : ~gone(p)},
                    !.order = SelectSeq(@, LAMBDA p : ~gone(p))]

\* the copies a group leaves in the variants of its parent: a later
\* Sdf.CopySpec to the same destination replaces an earlier one
GroupCopies(g, ok) ==
    {[parent |-> g.parent, variant |-> g.variants[k].var_name,
      child |-> g.base, from |-> g.variants[k].path] :
        k \in {k \in ok : \A j \in ok :
                  g.variants[j].var_name = g.variants[k].var_name => j <= k}}

\* lines 774-793 for one group; ok holds the members whose Sdf.CopySpec succeeded
ConvertGroup(doc, g, ok) ==
    LET names == {g.variants[k].var_name : k \in 1..Len(g.variants)}
        added == [doc EXCEPT
                    !.vsets = @ \cup {g.parent},
                    !.variants = @ \cup {[parent |-> g.parent, variant |-> n] : n \in names},
                    !.copies = {c \in @ : ~(\E d \in GroupCopies(g, ok) :
                                              /\ d.parent = c.parent
                                              /\ d.variant = c.variant
                                              /\ d.child = c.child)}
                               \cup GroupCopies(g, ok),
                    !.sel = {s \in @ : s.parent # g.parent}
                            \cup {[parent |-> g.parent, variant |-> g.variants[1].var_name]}]
    IN  RemoveMembers(added, g.variants)

\* the traversal of lines 736-749 and the early return of lines 751-753
VariantCollect ==
    /\ v_pc = "collect"
    /\ v_groups' = CollectVariantGroups(v_doc.order, 1, <<>>)
    /\ v_pc' = IF v_groups' = <<>> THEN "done" ELSE "groups"
    /\ UNCHANGED <<v_doc, v_i, v_hist>>
    /\ VariantFrame

\* a group with fewer than 2 members, or whose parent has no spec any more
VariantSkip ==
    /\ v_pc = "groups"
    /\ v_i <= Len(v_groups)
    /\ \/ Len(v_groups[v_i].variants) < 2
       \/ v_groups[v_i].parent \notin v_doc.prims
    /\ v_i' = v_i + 1
    /\ UNCHANGED <<v_pc, v_doc, v_groups, v_hist>>
    /\ VariantFrame

VariantConvert ==
    /\ v_pc = "groups"
    /\ v_i <= Len(v_groups)
    /\ Len(v_groups[v_i].variants) >= 2
    /\ v_groups[v_i].parent \in v_doc.prims
    /\ \E ok \in SUBSET (1..Len(v_groups[v_i].variants)) :
        /\ v_doc' = ConvertGroup(v_doc, v_groups[v_i], ok)
        /\ v_hist' = [v_hist EXCEPT
                        !.converted = @ \cup {v_i},
                        !.copy_failed = @ \/ ok # 1..Len(v_groups[v_i].variants)]
    /\ v_i' = v_i + 1
    /\ UNCHANGED <<v_pc, v_groups>>
    /\ VariantFrame

VariantFinish ==
    /\ v_pc = "groups"
    /\ v_i > Len(v_groups)
    /\ v_pc' = "done"
    /\ UNCHANGED <<v_doc, v_groups, v_i, v_hist>>
    /\ VariantFrame

\* names of the prims of the documents handed to _process_variants
VariantPool ==
    {<<"A">>, <<"A", "_VARIANT">>, <<"A", "_VARIANT", "1">>, <<"A", "_VARIANT", "A">>,
     <<"1", "_VARIANT", "A">>, <<"1", "_variant", "1">>}

\* the sequences of up to n distinct names
DistinctSeqs(pool, n) ==
    {s \in UNION {[1..k -> pool] : k \in 0..n} :
        \A i, j \in 1..Len(s) : i # j => s[i] # s[j]}

\* a document /AA with the given children, children below its first child,
\* and further root prims; order is the depth-first order of Traverse
VariantDoc(children, nested, roots) ==
    LET top == <<<<"A", "A">>>>
        kid(i) == top \o <<children[i]>>
        below == [j \in 1..Len(nested) |-> kid(1) \o <<nested[j]>>]
        kids == [i \in 1..Len(children) |-> kid(i)]
        rest == [i \in 1..Len(roots) |-> <<roots[i]>>]
        order == IF children = <<>> THEN <<top>> \o rest
                 ELSE <<top, kid(1)>> \o below \o Tail(kids) \o rest
    IN  [EmptyVariantDoc EXCEPT
            !.prims = {order[i] : i \in 1..Len(order)},
            !.order = order]

VariantIdle ==
    /\ v_pc = "idle"
    /\ v_doc = EmptyVariantDoc
    /\ v_groups = <<>>
    /\ v_i = 1
    /\ v_hist = [doc0 |-> EmptyVariantDoc, converted |-> {}, copy_failed |-> FALSE]

VariantInit ==
    /\ v_pc = "collect"
    /\ \E children \in DistinctSeqs(VariantPool, MaxVariantChildren),
          nested \in {<<>>, <<<<"A", "_VARIANT", "A">>, <<"A", "_VARIANT", "1">>>>},
          roots \in {<<>>, <<<<"A", "_VARIANT", "A">>, <<"A", "_VARIANT", "1">>>>} :
        /\ nested # <<>> => children # <<>>
        /\ v_doc = VariantDoc(children, nested, roots)
        /\ v_hist = [doc0 |-> VariantDoc(children, nested, roots),
                     converted |-> {}, copy_failed |-> FALSE]
    /\ v_groups = <<>>
    /\ v_i = 1

VariantNext ==
    \/ VariantCollect
    \/ VariantSkip
    \/ VariantConvert
    \/ VariantFinish

-----------------------------------------------------------------------------
(* auto_assemble_stage: the assembled stage.  The stage is a function from *)
(* prim paths to prims; a prim records whether it was defined as an Xform,  *)
(* its reference/payload arcs (each inside a variant or, with NoVariant, on *)
(* the prim itself), its purpose attribute, instanceable, kind, and its     *)
(* variant set "modelVariant" with the variants added and the selection.    *)

\* a hierarchy entry without parent (parts[1] empty), and the pseudo-root path
NoName == <<>>
NoPath == <<>>

\* default_prim_name when one is configured
ConfiguredName == <<"Scene">>

PurposeTokens == {"render", "proxy", "guide"}

BlankPrim ==
    [xform |-> FALSE, arcs |-> {}, purpose |-> None, instanceable |-> FALSE,
     kind |-> None, vset |-> FALSE, variants |-> {}, selection |-> NoVariant]

EmptyStage == [p \in {} |-> BlankPrim]

NoCreated == [n \in {} |-> NoPath]

NoInput ==
    [flat |-> TRUE, names |-> <<>>, parent |-> [n \in {} |-> NoName], files |-> {},
     inst |-> {}, usePayload |-> {}, cfg |-> FALSE]

\* make_valid_prim_name: every character that is not alphanumeric or "_"
\* becomes "_", a leading digit gets a "_" in front, the empty name is "prim"
make_valid_prim_name(name) ==
    LET valid_name == [i \in 1..Len(name) |-> IF IsWord(name[i]) THEN name[i] ELSE "_"]
    IN  IF valid_name = <<>> THEN <<"prim">>
        ELSE IF valid_name[1] = "1" THEN <<"_">> \o valid_name
        ELSE valid_name

\* stage.DefinePrim(path): an existing prim is kept
DefinePrim(stage, path) ==
    IF path \in DOMAIN stage THEN stage ELSE (path :> BlankPrim) @@ stage

\* UsdGeom.Xform.Define(stage, path)
XformDefine(stage, path) ==
    [DefinePrim(stage, path) EXCEPT ![path].xform = TRUE]

\* prim.GetPayloads().AddPayload / prim.GetReferences().AddReference, inside
\* the edit context of a variant or on the prim itself
AddArc(stage, path, variant, use_payload, file) ==
    [stage EXCEPT ![path].arcs =
        @ \cup {[variant |-> variant, payload |-> use_payload, file |-> file]}]

\* imageable.CreatePurposeAttr(purpose_map[purpose]) for a purpose of the map
SetPurpose(stage, path, purpose) ==
    IF purpose \in PurposeTokens THEN [stage EXCEPT ![path].purpose = purpose]
    ELSE stage

\* created_prims[name] = prim_path
Record(created, name, path) == (name :> path) @@ created

\* find_usd_file(name, export_dir) is not None
find_usd_file(in, name) == name \in in.files

\* read_prim_custom_data: instanceable and kind of the default prim of the
\* source document, and customData.usePayload.  The documents considered
\* author kind "component" on exactly the entry prims they make instanceable.
read_prim_custom_data(in, name) ==
    [instanceable |-> name \in in.inst,
     kind |-> IF name \in in.inst THEN "component" ELSE None,
     usePayload |-> name \in in.usePayload]

\* the value apply_prim_properties returns
is_instanceable_of(props, has_children) == props.instanceable /\ ~has_children

\* apply_prim_properties(prim, props, has_children)
apply_prim_properties(stage, path, props, has_children) ==
    [stage EXCEPT
        ![path].kind = IF props.kind # None THEN props.kind ELSE @,
        ![path].instanceable = @ \/ is_instanceable_of(props, has_children)]

\* add_reference_to_parent(parent_path, usd_file, expected_name, use_payload)
add_reference_to_parent(stage, parent_path, expected_name, use_payload) ==
    LET prim_path == parent_path \o <<expected_name>>
    IN  AddArc(DefinePrim(stage, prim_path), prim_path, NoVariant, use_payload, expected_name)

\* the names with an entry in the hierarchy table
Declared(in) == {in.names[i] : i \in 1..Len(in.names)}

\* build_hierarchy_tree: one entry per name of the table; a name is appended
\* to the children of its parent when the parent has an entry
build_hierarchy_tree(in) ==
    [name \in Declared(in) |->
        [parent |-> in.parent[name],
         children |-> SelectSeq(in.names,
                                LAMBDA c : /\ in.parent[c] # NoName
                                           /\ in.parent[c] \in Declared(in)
                                           /\ in.parent[c] = name)]]

\* hierarchy_tree[name]['children'] behind the test "name in hierarchy_tree"
hierarchy_children(in, name) ==
    IF name \in Declared(in) THEN build_hierarchy_tree(in)[name].children ELSE <<>>

\* a plausible slip: a name whose parent has no entry taken for a root
get_root_nodes_orphans(in) ==
    SelectSeq(in.names, LAMBDA n : build_hierarchy_tree(in)[n].parent \notin Declared(in))

\* a plausible slip: a name that is its own parent taken for a root too
get_root_nodes_self(in) ==
    SelectSeq(in.names, LAMBDA n : build_hierarchy_tree(in)[n].parent \in {NoName, n})

\* get_root_nodes
get_root_nodes(in) ==
    SelectSeq(in.names, LAMBDA n : build_hierarchy_tree(in)[n].parent = NoName)

has_variant(name) == parse_name_suffixes(name).variant # NoVariant
has_purpose(name) == parse_name_suffixes(name).purpose # None

\* validate_variants(children, hierarchy_tree) returns an error message
validate_variants(in, children) ==
    \E k \in 1..Len(children) :
        /\ has_variant(children[k])
        /\ LET below == hierarchy_children(in, children[k])
           IN  \E j \in 1..Len(below) :
                  /\ has_variant(below[j])
                  /\ parse_name_suffixes(below[j]).base
                        = parse_name_suffixes(children[k]).base

\* groups[group_key].append(...), keys in insertion order
AppendMember(groups, key, name) ==
    IF \E k \in 1..Len(groups) : groups[k].key = key
    THEN [k \in 1..Len(groups) |->
            IF groups[k].key = key
            THEN [groups[k] EXCEPT !.members = Append(@, name)]
            ELSE groups[k]]
    ELSE Append(groups, [key |-> key, members |-> <<name>>])

RECURSIVE GroupFrom(_, _, _)

GroupFrom(names, i, groups) ==
    IF i > Len(names) THEN groups
    ELSE GroupFrom(names, i + 1,
                   AppendMember(groups, parse_name_suffixes(names[i]).base, names[i]))

\* get_sibling_groups(children): the group key is the base name
get_sibling_groups(children) == GroupFrom(children, 1, <<>>)

\* flat_groups: the files grouped by base name (lines 657-669)
flat_groups(names) == GroupFrom(names, 1, <<>>)

\* purposes = set(g['purpose'] for g in group if g['purpose'])
purposes_of(group) ==
    {parse_name_suffixes(group[k]).purpose : k \in 1..Len(group)} \ {None}

\* variants = [g for g in group if g['variant']]
variants_of(group) == SelectSeq(group, has_variant)

\* by_purpose before the merge: the items of the group under their purpose,
\* with 'default' for the items without one
bucket_of(name) ==
    IF has_purpose(name) THEN parse_name_suffixes(name).purpose ELSE "default"

RECURSIVE BucketsFrom(_, _, _)

BucketsFrom(group, i, buckets) ==
    IF i > Len(group) THEN buckets
    ELSE BucketsFrom(group, i + 1, AppendMember(buckets, bucket_of(group[i]), group[i]))

BucketNamed(buckets, key) ==
    LET hit == SelectSeq(buckets, LAMBDA b : b.key = key)
    IN  IF hit = <<>> THEN <<>> ELSE hit[1].members

\* a plausible slip: the 'default' bucket never folded into 'render'
by_purpose_unmerged(group) == BucketsFrom(group, 1, <<>>)

\* by_purpose after lines 490-494: the 'default' bucket is folded into
\* 'render' when the group has a proxy or guide member
by_purpose(group) ==
    LET buckets == BucketsFrom(group, 1, <<>>)
        default == BucketNamed(buckets, "default")
        others == SelectSeq(buckets, LAMBDA b : b.key # "default")
    IN  IF default # <<>> /\ purposes_of(group) \cap {"proxy", "guide"} # {}
        THEN IF BucketNamed(buckets, "render") # <<>>
             THEN [k \in 1..Len(others) |->
                     IF others[k].key = "render"
                     THEN [others[k] EXCEPT !.members = @ \o default]
                     ELSE others[k]]
             ELSE Append(others, [key |-> "render", members |-> default])
        ELSE buckets

\* the name of the variant an item goes to
variant_name_of(name) ==
    IF has_variant(name) THEN parse_name_suffixes(name).variant ELSE <<"default">>

\* one pass of the loops of lines 525-546 and 594-615 for an item whose file
\* was found: the variant is added and selected, the arc is authored inside
\* it, the properties are applied to the prim, the item is recorded.  w holds
\* the stage, created_prims and the variant sets built so far.
AddVariantItem(w, in, path, name) ==
    LET var == variant_name_of(name)
        item_props == read_prim_custom_data(in, name)
        use_payload == item_props.usePayload \/ parse_name_suffixes(name).is_payload
        added == [w.stage EXCEPT ![path].variants = @ \cup {var},
                                 ![path].selection = var]
    IN  [w EXCEPT
            !.stage = apply_prim_properties(
                          AddArc(added, path, var, use_payload, name),
                          path, item_props, FALSE),
            !.created = Record(@, name, path)]

RECURSIVE AddVariantItems(_, _, _, _, _)

\* for item in group: ... if not item_file: continue
AddVariantItems(w, in, path, items, i) ==
    IF i > Len(items) THEN w
    ELSE AddVariantItems(IF find_usd_file(in, items[i])
                         THEN AddVariantItem(w, in, path, items[i])
                         ELSE w,
                         in, path, items, i + 1)

\* variant_set.SetVariantSelection("default" if default_item else variants[0]['variant'])
SelectDefault(stage, path, items) ==
    [stage EXCEPT ![path].selection =
        IF \E k \in 1..Len(items) : ~has_variant(items[k])
        THEN <<"default">>
        ELSE parse_name_suffixes(variants_of(items)[1]).variant]

\* a prim that gets the variant set "modelVariant"
AddVariantSet(w, path, items, branch) ==
    [w EXCEPT
        !.stage = [DefinePrim(@, path) EXCEPT ![path].vset = TRUE],
        !.hist = @ \cup {[path |-> path, members |-> items, branch |-> branch]}]

\* one purpose bucket (lines 498-580)
Bucket(w, in, group_prim_path, purpose_name, purpose_items) ==
    LET purpose_variants == variants_of(purpose_items)
        purpose_prim_path == group_prim_path \o << <<purpose_name>> >>
        item == purpose_items[1]
        item_props == read_prim_custom_data(in, item)
        use_payload == item_props.usePayload \/ parse_name_suffixes(item).is_payload
    IN  IF \/ Len(purpose_variants) > 1
           \/ (Len(purpose_variants) = 1 /\ Len(purpose_items) > 1)
        THEN LET w1 == AddVariantSet(w, purpose_prim_path, purpose_items, "bucket")
                 w2 == [w1 EXCEPT !.stage = SetPurpose(@, purpose_prim_path, purpose_name)]
                 w3 == AddVariantItems(w2, in, purpose_prim_path, purpose_items, 1)
             IN  [w3 EXCEPT !.stage = SelectDefault(@, purpose_prim_path, purpose_items)]
        ELSE IF Len(purpose_items) = 1 /\ find_usd_file(in, item)
        THEN [w EXCEPT
                !.stage = apply_prim_properties(
                              SetPurpose(
                                  AddArc(DefinePrim(@, purpose_prim_path), purpose_prim_path,
                                         NoVariant, use_payload, item),
                                  purpose_prim_path, purpose_name),
                              purpose_prim_path, item_props, FALSE),
                !.created = Record(@, item, purpose_prim_path)]
        ELSE w

RECURSIVE Buckets(_, _, _, _, _)

\* for purpose_name, purpose_items in by_purpose.items()
Buckets(w, in, group_prim_path, buckets, i) ==
    IF i > Len(buckets) THEN w
    ELSE Buckets(Bucket(w, in, group_prim_path, buckets[i].key, buckets[i].members),
                 in, group_prim_path, buckets, i + 1)

\* the purpose branch of create_prim_recursive (lines 472-580)
purpose_branch(w, in, group_key, group_prim_path, group) ==
    Buckets([w EXCEPT !.stage = XformDefine(@, group_prim_path),
                      !.created = Record(@, group_key, group_prim_path)],
            in, group_prim_path, by_purpose(group), 1)

\* the variant-only branch of create_prim_recursive up to the selection
\* (lines 582-617)
variant_branch(w, in, group_prim_path, group) ==
    LET w1 == AddVariantSet(w, group_prim_path, group, "variants")
        w2 == AddVariantItems(w1, in, group_prim_path, group, 1)
    IN  [w2 EXCEPT !.stage = SelectDefault(@, group_prim_path, group)]

\* the flat purpose branch (lines 693-776); every item has its file
flat_purpose_branch(w, in, base_name, group_prim_path, group) ==
    Buckets([w EXCEPT !.stage = XformDefine(@, group_prim_path),
                      !.created = Record(@, base_name, group_prim_path)],
            in, group_prim_path, by_purpose(group), 1)

\* the flat variant-only branch (lines 778-804)
flat_variant_branch(w, in, group_prim_path, group) ==
    LET w1 == AddVariantSet(w, group_prim_path, group, "variants")
        w2 == AddVariantItems(w1, in, group_prim_path, group, 1)
    IN  [w2 EXCEPT !.stage = SelectDefault(@, group_prim_path, group)]

\* one item added directly under the assembly root (lines 680-687, 808-815)
FlatItem(w, in, parent_path, name) ==
    LET props == read_prim_custom_data(in, name)
        use_payload == props.usePayload \/ parse_name_suffixes(name).is_payload
        prim_path == parent_path \o <<name>>
    IN  [w EXCEPT
            !.stage = apply_prim_properties(
                          add_reference_to_parent(@, parent_path, name, use_payload),
                          prim_path, props, FALSE),
            !.created = Record(@, name, prim_path)]

RECURSIVE FlatItems(_, _, _, _, _)

FlatItems(w, in, parent_path, group, i) ==
    IF i > Len(group) THEN w
    ELSE FlatItems(FlatItem(w, in, parent_path, group[i]), in, parent_path, group, i + 1)

\* assembly_root_path
assembly_root_path(in) == IF in.cfg THEN <<ConfiguredName>> ELSE NoPath

\* the pending work of the run, first to run first: calls of
\* create_prim_recursive, sibling groups of its loop, the default-prim step
\* after a root, the groups of the flat loop
Task(k, name, path, members) == [k |-> k, name |-> name, path |-> path, members |-> members]

Calls(names, path) == [i \in 1..Len(names) |-> Task("call", names[i], path, <<>>)]

RECURSIVE Flatten(_)

Flatten(seqs) == IF seqs = <<>> THEN <<>> ELSE Head(seqs) \o Flatten(Tail(seqs))

Bundle == [stage |-> a_stage, created |-> a_created, hist |-> a_hist]

\* lines 297-340 and the loops that start the work (lines 633-637, 645-672)
AssembleBegin ==
    /\ a_pc = "start"
    /\ a_stage' = IF a_in.cfg
                  THEN [XformDefine(a_stage, <<ConfiguredName>>)
                            EXCEPT ![<<ConfiguredName>>].kind = "assembly"]
                  ELSE a_stage
    /\ a_default' = IF a_in.cfg THEN <<ConfiguredName>> ELSE NoPath
    /\ a_stack' =
        IF ~a_in.flat
        THEN LET roots == get_root_nodes(a_in)
             IN  Flatten([i \in 1..Len(roots) |->
                            <<Task("call", roots[i], assembly_root_path(a_in), <<>>),
                              Task("root", roots[i], NoPath, <<>>)>>])
        ELSE LET groups == flat_groups(a_in.names)
             IN  [i \in 1..Len(groups) |->
                    Task("flat", groups[i].key, assembly_root_path(a_in), groups[i].members)]
    /\ a_pc' = "run"
    /\ UNCHANGED <<a_in, a_created, a_hist, a_seen>>
    /\ AssembleFrame

\* create_prim_recursive(name, parent_path) up to the loop over the sibling
\* groups of its children (lines 388-455)
CreatePrimRecursive ==
    /\ a_pc = "run"
    /\ a_stack # <<>>
    /\ Head(a_stack).k = "call"
    /\ LET name == Head(a_stack).name
           parent_path == Head(a_stack).path
           children == hierarchy_children(a_in, name)
           has_children == Len(children) > 0
           props == read_prim_custom_data(a_in, name)
           use_payload == props.usePayload \/ parse_name_suffixes(name).is_payload
           with_file == find_usd_file(a_in, name)
           prim_path == IF with_file THEN parent_path \o <<name>>
                        ELSE parent_path \o <<make_valid_prim_name(name)>>
           groups == get_sibling_groups(children)
       IN  /\ a_stage' =
                IF with_file
                THEN SetPurpose(
                         apply_prim_properties(
                             add_reference_to_parent(a_stage, parent_path, name, use_payload),
                             prim_path, props, has_children),
                         prim_path, parse_name_suffixes(name).purpose)
                ELSE XformDefine(a_stage, prim_path)
           /\ a_created' = Record(a_created, name, prim_path)
           /\ a_stack' =
                IF \/ (with_file /\ is_instanceable_of(props, has_children))
                   \/ validate_variants(a_in, children)
                THEN Tail(a_stack)
                ELSE [i \in 1..Len(groups) |->
                        Task("group", groups[i].key, prim_path, groups[i].members)]
                     \o Tail(a_stack)
    /\ UNCHANGED <<a_pc, a_in, a_default, a_hist>>
    /\ a_seen' = a_seen \cup {Head(a_stack).name}
    /\ AssembleFrame

\* a single item without purpose or variant (lines 463-465)
GroupSingle ==
    /\ a_pc = "run"
    /\ a_stack # <<>>
    /\ Head(a_stack).k = "group"
    /\ LET group == Head(a_stack).members
       IN  /\ Len(group) = 1 /\ purposes_of(group) = {} /\ variants_of(group) = <<>>
           /\ a_stack' = Calls(group, Head(a_stack).path) \o Tail(a_stack)
    /\ UNCHANGED <<a_pc, a_in, a_stage, a_created, a_default, a_hist, a_seen>>
    /\ AssembleFrame

\* a group with purposes (lines 468-580)
GroupPurpose ==
    /\ a_pc = "run"
    /\ a_stack # <<>>
    /\ Head(a_stack).k = "group"
    /\ LET group == Head(a_stack).members
           group_key == Head(a_stack).name
           group_prim_path == Head(a_stack).path \o <<make_valid_prim_name(group_key)>>
           w == purpose_branch(Bundle, a_in, group_key, group_prim_path, group)
       IN  /\ purposes_of(group) # {}
           /\ a_stage' = w.stage
           /\ a_created' = w.created
           /\ a_hist' = w.hist
    /\ a_stack' = Tail(a_stack)
    /\ UNCHANGED <<a_pc, a_in, a_default>>
    /\ a_seen' = a_seen \cup {Head(a_stack).members[k] : k \in 1..Len(Head(a_stack).members)}
    /\ AssembleFrame

\* a group with variants and no purpose (lines 468-469, 582-623)
GroupVariants ==
    /\ a_pc = "run"
    /\ a_stack # <<>>
    /\ Head(a_stack).k = "group"
    /\ LET group == Head(a_stack).members
           group_prim_path == Head(a_stack).path
                                 \o <<make_valid_prim_name(Head(a_stack).name)>>
           w == variant_branch(Bundle, a_in, group_prim_path, group)
       IN  /\ purposes_of(group) = {} /\ variants_of(group) # <<>>
           /\ a_stage' = w.stage
           /\ a_created' = w.created
           /\ a_hist' = w.hist
           /\ a_stack' =
                Flatten([k \in 1..Len(group) |->
                            Calls(hierarchy_children(a_in, group[k]), group_prim_path)])
                \o Tail(a_stack)
    /\ UNCHANGED <<a_pc, a_in, a_default>>
    /\ a_seen' = a_seen \cup {Head(a_stack).members[k] : k \in 1..Len(Head(a_stack).members)}
    /\ AssembleFrame

\* several items without purpose or variant (lines 625-628)
GroupPlain ==
    /\ a_pc = "run"
    /\ a_stack # <<>>
    /\ Head(a_stack).k = "group"
    /\ LET group == Head(a_stack).members
       IN  /\ Len(group) > 1 /\ purposes_of(group) = {} /\ variants_of(group) = <<>>
           /\ a_stack' = Calls(group, Head(a_stack).path) \o Tail(a_stack)
    /\ UNCHANGED <<a_pc, a_in, a_stage, a_created, a_default, a_hist, a_seen>>
    /\ AssembleFrame

\* after the call for a root: the first root-level prim becomes the default
\* prim unless one is configured (lines 638-642)
RootDone ==
    /\ a_pc = "run"
    /\ a_stack # <<>>
    /\ Head(a_stack).k = "root"
    /\ a_default' =
        IF ~a_in.cfg /\ a_default = NoPath /\ Head(a_stack).name \in DOMAIN a_created
        THEN a_created[Head(a_stack).name]
        ELSE a_default
    /\ a_stack' = Tail(a_stack)
    /\ UNCHANGED <<a_pc, a_in, a_stage, a_created, a_hist, a_seen>>
    /\ AssembleFrame

\* flat mode: a single file without purpose or variant (lines 679-688)
FlatSingle ==
    /\ a_pc = "run"
    /\ a_stack # <<>>
    /\ Head(a_stack).k = "flat"
    /\ LET group == Head(a_stack).members
           w == FlatItems(Bundle, a_in, Head(a_stack).path, group, 1)
       IN  /\ Len(group) = 1 /\ purposes_of(group) = {} /\ variants_of(group) = <<>>
           /\ a_stage' = w.stage
           /\ a_created' = w.created
    /\ a_stack' = Tail(a_stack)
    /\ UNCHANGED <<a_pc, a_in, a_default, a_hist>>
    /\ a_seen' = a_seen \cup {Head(a_stack).members[k] : k \in 1..Len(Head(a_stack).members)}
    /\ AssembleFrame

\* flat mode: a group with purposes (lines 691-776)
FlatPurpose ==
    /\ a_pc = "run"
    /\ a_stack # <<>>
    /\ Head(a_stack).k = "flat"
    /\ LET group == Head(a_stack).members
           base_name == Head(a_stack).name
           group_prim_path == Head(a_stack).path \o <<make_valid_prim_name(base_name)>>
           w == flat_purpose_branch(Bundle, a_in, base_name, group_prim_path, group)
       IN  /\ purposes_of(group) # {}
           /\ a_stage' = w.stage
           /\ a_created' = w.created
           /\ a_hist' = w.hist
    /\ a_stack' = Tail(a_stack)
    /\ UNCHANGED <<a_pc, a_in, a_default>>
    /\ a_seen' = a_seen \cup {Head(a_stack).members[k] : k \in 1..Len(Head(a_stack).members)}
    /\ AssembleFrame

\* flat mode: a group with variants and no purpose (lines 691, 778-804)
FlatVariants ==
    /\ a_pc = "run"
    /\ a_stack # <<>>
    /\ Head(a_stack).k = "flat"
    /\ LET group == Head(a_stack).members
           group_prim_path == Head(a_stack).path
                                 \o <<make_valid_prim_name(Head(a_stack).name)>>
           w == flat_variant_branch(Bundle, a_in, group_prim_path, group)
       IN  /\ purposes_of(group) = {} /\ variants_of(group) # <<>>
           /\ a_stage' = w.stage
           /\ a_created' = w.created
           /\ a_hist' = w.hist
    /\ a_stack' = Tail(a_stack)
    /\ UNCHANGED <<a_pc, a_in, a_default>>
    /\ a_seen' = a_seen \cup {Head(a_stack).members[k] : k \in 1..Len(Head(a_stack).members)}
    /\ AssembleFrame

\* flat mode: several files without purpose or variant (lines 806-815)
FlatPlain ==
    /\ a_pc = "run"
    /\ a_stack # <<>>
    /\ Head(a_stack).k = "flat"
    /\ LET group == Head(a_stack).members
           w == FlatItems(Bundle, a_in, Head(a_stack).path, group, 1)
       IN  /\ Len(group) > 1 /\ purposes_of(group) = {} /\ variants_of(group) = <<>>
           /\ a_stage' = w.stage
           /\ a_created' = w.created
    /\ a_stack' = Tail(a_stack)
    /\ UNCHANGED <<a_pc, a_in, a_default, a_hist>>
    /\ a_seen' = a_seen \cup {Head(a_stack).members[k] : k \in 1..Len(Head(a_stack).members)}
    /\ AssembleFrame

\* stage.GetRootLayer().Export(output_path) and the return (lines 817-825)
Export ==
    /\ a_pc = "run"
    /\ a_stack = <<>>
    /\ a_pc' = "done"
    /\ UNCHANGED <<a_in, a_stage, a_created, a_stack, a_default, a_hist, a_seen>>
    /\ AssembleFrame

\* names of hierarchy entries and of exported files
AssemblePool ==
    {<<"A", "A">>, <<"A">>, <<"A", "_VARIANT">>, <<"A", "_VARIANT", "1">>,
     <<"A", "_VARIANT", "A">>, <<"A", "_RENDER">>, <<"A", "_proxy">>, <<"A", "_PAYLOAD">>}

\* the names of the deeper hierarchy tables: two bases, variant-tagged and
\* purpose-tagged names
DeepPool ==
    {<<"A", "A">>, <<"A">>, <<"A", "_VARIANT", "1">>, <<"A", "_VARIANT", "A">>,
     <<"A", "_RENDER">>}

AssembleIdle ==
    /\ a_pc = "idle"
    /\ a_in = NoInput
    /\ a_stage = EmptyStage
    /\ a_created = NoCreated
    /\ a_stack = <<>>
    /\ a_default = NoPath
    /\ a_hist = {}
    /\ a_seen = {}

\* the export directory: with a hierarchy table (every entry's parent is
\* empty or an entry listed before it; some entries have a file) or without
\* one (the names are the files found).  Tables of more than MaxEntries
\* entries are taken from DeepPool, with a file for every entry.
AssembleInit ==
    /\ a_pc = "start"
    /\ \/ \E names \in DistinctSeqs(AssemblePool, MaxEntries), flat \in BOOLEAN, cfg \in BOOLEAN :
            \E parent \in [{names[i] : i \in 1..Len(names)} ->
                                {NoName} \cup {names[i] : i \in 1..Len(names)}],
               files \in SUBSET {names[i] : i \in 1..Len(names)} :
              \E inst \in SUBSET files, usePayload \in {{}, files} :
                /\ Cardinality(inst) <= 1
                /\ ~flat => names # <<>>
                /\ flat => files = {names[i] : i \in 1..Len(names)}
                /\ \A i \in 1..Len(names) :
                      \/ parent[names[i]] = NoName
                      \/ ~flat /\ \E j \in 1..(i - 1) : parent[names[i]] = names[j]
                /\ a_in = [flat |-> flat, names |-> names, parent |-> parent, files |-> files,
                           inst |-> inst, usePayload |-> usePayload, cfg |-> cfg]
       \/ \E names \in DistinctSeqs(DeepPool, MaxDeepEntries) :
            \E parent \in [{names[i] : i \in 1..Len(names)} ->
                                {NoName} \cup {names[i] : i \in 1..Len(names)}] :
                /\ Len(names) > MaxEntries
                /\ \A i \in 1..Len(names) :
                      \/ parent[names[i]] = NoName
                      \/ \E j \in 1..(i - 1) : parent[names[i]] = names[j]
                /\ a_in = [flat |-> FALSE, names |-> names, parent |-> parent,
                           files |-> {names[i] : i \in 1..Len(names)},
                           inst |-> {}, usePayload |-> {}, cfg |-> FALSE]
    /\ a_stage = EmptyStage
    /\ a_created = NoCreated
    /\ a_stack = <<>>
    /\ a_default = NoPath
    /\ a_hist = {}
    /\ a_seen = {}

\* the names of the hierarchy tables with arbitrary parent links
TablePool ==
    {<<"A", "A">>, <<"A">>, <<"A", "_PAYLOAD">>, <<"A", "_VARIANT", "A">>,
     <<"A", "_proxy">>, <<"A", "_RENDER", "_VARIANT", "1">>}

\* an export directory whose hierarchy table names any parent for an entry:
\* an entry listed later, the entry itself, a name without entry; every
\* entry has a file.  Without a table the names are the files found.
TableInit ==
    /\ a_pc = "start"
    /\ \E names \in DistinctSeqs(TablePool, MaxTableEntries), flat \in BOOLEAN,
          cfg \in BOOLEAN :
        \E parent \in [{names[i] : i \in 1..Len(names)} -> {NoName} \cup TablePool] :
            /\ ~flat => names # <<>>
            /\ flat => \A i \in 1..Len(names) : parent[names[i]] = NoName
            /\ a_in = [flat |-> flat, names |-> names, parent |-> parent,
                       files |-> {names[i] : i \in 1..Len(names)},
                       inst |-> {}, usePayload |-> {}, cfg |-> cfg]
    /\ a_stage = EmptyStage
    /\ a_created = NoCreated
    /\ a_stack = <<>>
    /\ a_default = NoPath
    /\ a_hist = {}
    /\ a_seen = {}

\* the names of the hierarchy tables checked for termination
CyclePool == {<<"A">>, <<"A", "_PAYLOAD">>, <<"A", "_VARIANT", "A">>, <<"A", "_proxy">>}

\* a hierarchy table that names any parent for an entry, in a directory
\* where no source document is found: no prim is instanceable, and the
\* recursion goes through every child it can reach
CycleInit ==
    /\ a_pc = "start"
    /\ \E names \in DistinctSeqs(CyclePool, MaxCycleEntries) \ {<<>>} :
        \E parent \in [{names[i] : i \in 1..Len(names)} -> {NoName} \cup CyclePool] :
            a_in = [flat |-> FALSE, names |-> names, parent |-> parent,
                    files |-> {}, inst |-> {}, usePayload |-> {}, cfg |-> FALSE]
    /\ a_stage = EmptyStage
    /\ a_created = NoCreated
    /\ a_stack = <<>>
    /\ a_default = NoPath
    /\ a_hist = {}
    /\ a_seen = {}

\* the steps of a run with a hierarchy table
HierarchyNext ==
    \/ AssembleBegin
    \/ CreatePrimRecursive
    \/ GroupSingle
    \/ GroupPurpose
    \/ GroupVariants
    \/ GroupPlain
    \/ RootDone
    \/ Export

AssembleNext ==
    \/ AssembleBegin
    \/ CreatePrimRecursive
    \/ GroupSingle
    \/ GroupPurpose
    \/ GroupVariants
    \/ GroupPlain
    \/ RootDone
    \/ FlatSingle
    \/ FlatPurpose
    \/ FlatVariants
    \/ FlatPlain
    \/ Export

-----------------------------------------------------------------------------
(* PostExport: the three steps of the hook.  An entry of primsToNodeHandles *)
(* is described by what Step 1 meets when it reaches it.                    *)

EntryKinds ==
    {"no_node",       \* mxs.maxOps.getNodeByHandle returns None
     "invalid_prim",  \* the prim at prim_path is not valid
     "no_modifier",   \* the node has no "USD Properties" modifier
     "applied",       \* the nine _apply_* methods run
     "apply_error",   \* an _apply_* method fails; its own try/except swallows it
     "raises"}        \* the loop body raises an exception

\* the steps of PostExport in the order of the source
Phases == <<"props", "strip", "variants">>

\* a plausible slip: an exception of a step ends the hook
next_phase_unwrapped(phase, raised) ==
    IF raised THEN "aborted"
    ELSE CASE phase = "props" -> "strip"
           [] phase = "strip" -> "variants"
           [] phase = "variants" -> "return"

\* try: ... except Exception: print(...) - the statement after the try
\* block runs whether the step raised or not
next_phase(phase, raised) ==
    CASE phase = "props" -> "strip"
      [] phase = "strip" -> "variants"
      [] phase = "variants" -> "return"

\* Step 1, one entry that does not raise (lines 40-60)
HookPropsEntry ==
    /\ h_pc = "props"
    /\ h_i <= Len(h_entries)
    /\ h_entries[h_i] # "raises"
    /\ h_processed' = IF h_entries[h_i] \in {"applied", "apply_error"}
                      THEN h_processed + 1 ELSE h_processed
    /\ h_i' = h_i + 1
    /\ h_log' = IF h_i = 1 THEN Append(h_log, "props") ELSE h_log
    /\ UNCHANGED <<h_pc, h_entries, h_raised, h_ret>>
    /\ HookFrame

\* Step 1, an entry whose processing raises: the except clause of lines 63-65
HookPropsRaise ==
    /\ h_pc = "props"
    /\ h_i <= Len(h_entries)
    /\ h_entries[h_i] = "raises"
    /\ h_raised' = h_raised \cup {"props"}
    /\ h_pc' = next_phase("props", TRUE)
    /\ h_log' = IF h_i = 1 THEN Append(h_log, "props") ELSE h_log
    /\ UNCHANGED <<h_entries, h_i, h_processed, h_ret>>
    /\ HookFrame

\* Step 1, the loop ends (line 62)
HookPropsEnd ==
    /\ h_pc = "props"
    /\ h_i > Len(h_entries)
    /\ h_pc' = next_phase("props", FALSE)
    /\ h_log' = IF h_i = 1 THEN Append(h_log, "props") ELSE h_log
    /\ UNCHANGED <<h_entries, h_i, h_processed, h_raised, h_ret>>
    /\ HookFrame

\* Step 2: self._strip_root_wrapper() returns or raises (lines 67-72)
HookStrip ==
    /\ h_pc = "strip"
    /\ \E raised \in BOOLEAN :
        /\ h_raised' = IF raised THEN h_raised \cup {"strip"} ELSE h_raised
        /\ h_pc' = next_phase("strip", raised)
    /\ h_log' = Append(h_log, "strip")
    /\ UNCHANGED <<h_entries, h_i, h_processed, h_ret>>
    /\ HookFrame

\* Step 3: self._process_variants() returns or raises (lines 74-79)
HookVariants ==
    /\ h_pc = "variants"
    /\ \E raised \in BOOLEAN :
        /\ h_raised' = IF raised THEN h_raised \cup {"variants"} ELSE h_raised
        /\ h_pc' = next_phase("variants", raised)
    /\ h_log' = Append(h_log, "variants")
    /\ UNCHANGED <<h_entries, h_i, h_processed, h_ret>>
    /\ HookFrame

\* return True (lines 81-82)
HookReturn ==
    /\ h_pc = "return"
    /\ h_ret' = "True"
    /\ h_pc' = "returned"
    /\ UNCHANGED <<h_entries, h_i, h_processed, h_raised, h_log>>
    /\ HookFrame

HookIdle ==
    /\ h_pc = "idle"
    /\ h_entries = <<>>
    /\ h_i = 1
    /\ h_processed = 0
    /\ h_raised = {}
    /\ h_log = <<>>
    /\ h_ret = None

HookInit ==
    /\ h_pc = "props"
    /\ \E k \in 0..MaxHookEntries : h_entries \in [1..k -> EntryKinds]
    /\ h_i = 1
    /\ h_processed = 0
    /\ h_raised = {}
    /\ h_log = <<>>
    /\ h_ret = None

HookNext ==
    \/ HookPropsEntry
    \/ HookPropsRaise
    \/ HookPropsEnd
    \/ HookStrip
    \/ HookVariants
    \/ HookReturn

-----------------------------------------------------------------------------
(* Skeleton joint tokens.  A token string is a sequence of characters; a   *)
(* component name counts as one character here, "/" is the separator.      *)

Slash == <<"/">>

\* s.startswith(p)
StartsWith(s, p) == Len(s) >= Len(p) /\ SubSeq(s, 1, Len(p)) = p

\* s[n:]
SliceFrom(s, n) == SubSeq(s, n + 1, Len(s))

RECURSIVE lstrip(_)
\* s.lstrip("/")
lstrip(s) == IF s # <<>> /\ Head(s) = "/" THEN lstrip(Tail(s)) ELSE s

RECURSIVE rstrip(_)
\* s.rstrip("/")
rstrip(s) ==
    IF s # <<>> /\ s[Len(s)] = "/" THEN rstrip(SubSeq(s, 1, Len(s) - 1)) ELSE s

\* s.strip("/")
strip(s) == lstrip(rstrip(s))

\* an optional string argument that is given and not empty
Truthy(opt) == opt # NoArg /\ opt # {<<>>}

ValueOf(opt) == CHOOSE v \in opt : TRUE

\* the None result of _remap_path_str
Unchanged == [none |-> TRUE, str |-> <<>>]

Remapped(s) == [none |-> FALSE, str |-> s]

RECURSIVE remap_mtl_from(_, _, _, _, _)
\* lines 499-502: the loop over mtl_names, from the k-th name on
remap_mtl_from(path_str, strip_prefix, nest_target, mtl_names, k) ==
    IF k > Len(mtl_names) THEN Unchanged
    ELSE LET mtl_prefix == strip_prefix \o Slash \o mtl_names[k]
         IN  IF StartsWith(path_str, mtl_prefix \o Slash) \/ path_str = mtl_prefix
             THEN Remapped(Slash \o nest_target \o Slash \o mtl_names[k]
                           \o SliceFrom(path_str, Len(mtl_prefix)))
             ELSE remap_mtl_from(path_str, strip_prefix, nest_target, mtl_names, k + 1)

\* _remap_path_str on the string of a token
remap_token_path_str(path_str, strip_prefix, nest_target, mtl_names, replacement_prefix) ==
    LET nested == IF Truthy(nest_target) /\ mtl_names # <<>>
                  THEN remap_mtl_from(path_str, strip_prefix, ValueOf(nest_target),
                                      mtl_names, 1)
                  ELSE Unchanged
        suffix == SliceFrom(path_str, Len(strip_prefix))
    IN  IF ~nested.none THEN nested
        ELSE IF StartsWith(path_str, strip_prefix \o Slash)
        THEN IF replacement_prefix = NoArg THEN Remapped(suffix)
             ELSE IF ValueOf(replacement_prefix) = Slash THEN Remapped(suffix)
             ELSE Remapped(rstrip(ValueOf(replacement_prefix)) \o suffix)
        ELSE IF path_str = strip_prefix
        THEN IF replacement_prefix # NoArg
             THEN Remapped(IF ValueOf(replacement_prefix) # <<>>
                           THEN ValueOf(replacement_prefix) ELSE Slash)
             ELSE Remapped(Slash)
        ELSE Unchanged

\* _format_joint_token_path
format_joint_token_path(path_str, had_leading_slash) ==
    IF had_leading_slash THEN path_str ELSE lstrip(path_str)

\* _remap_skeleton_joint_token; token_valid and prefixed_valid are what
\* self.stage.GetPrimAtPath(...).IsValid() answers at lines 664 and 668
remap_skeleton_joint_token(a) ==
    LET token == a.token
        had_leading_slash == StartsWith(token, Slash)
        r1 == remap_token_path_str(token, a.strip_prefix, a.nest_target, a.mtl_names,
                                   a.replacement_prefix)
        r2 == IF r1.none /\ ~had_leading_slash
              THEN remap_token_path_str(Slash \o token, a.strip_prefix, a.nest_target,
                                        a.mtl_names, a.replacement_prefix)
              ELSE r1
        rel_prefix == strip(ValueOf(a.relative_strip_prefix))
        r3 == IF r2.none /\ ~had_leading_slash /\ Truthy(a.relative_strip_prefix)
              THEN IF StartsWith(token, rel_prefix \o Slash)
                   THEN Remapped(SliceFrom(token, Len(rel_prefix) + 1))
                   ELSE r2
              ELSE r2
        token_abs == IF had_leading_slash THEN token ELSE Slash \o token
    IN  IF token = <<>> THEN token
        ELSE IF ~r3.none THEN format_joint_token_path(r3.str, had_leading_slash)
        ELSE IF ~Truthy(a.content_root) THEN token
        ELSE IF a.token_valid THEN token
        ELSE IF a.prefixed_valid
        THEN format_joint_token_path(Slash \o ValueOf(a.content_root) \o token_abs,
                                     had_leading_slash)
        ELSE token

\* names of prims and joints
JointNames == {"root", "Scene", "mtl", "Hero", "B"}

RECURSIVE JoinPath(_)
\* the components joined with "/"
JoinPath(names) ==
    IF Len(names) = 1 THEN names ELSE <<Head(names)>> \o Slash \o JoinPath(Tail(names))

\* the joint tokens of a skeleton: the empty token, and paths of at most
\* MaxJointDepth components in relative or absolute style
JointTokens ==
    LET paths == UNION {{JoinPath(n) : n \in [1..k -> JointNames]} : k \in 1..MaxJointDepth}
    IN  {<<>>} \cup paths \cup {Slash \o p : p \in paths}

NoJointArg ==
    [token |-> <<>>, strip_prefix |-> <<>>, nest_target |-> NoArg, mtl_names |-> <<>>,
     content_root |-> NoArg, replacement_prefix |-> NoArg,
     relative_strip_prefix |-> NoArg, token_valid |-> FALSE, prefixed_valid |-> FALSE]

\* the arguments of the call of line 328 (after a strip of the wrapper)
StripCallArgs ==
    {[NoJointArg EXCEPT !.strip_prefix = sp, !.nest_target = nt, !.mtl_names = mn,
                        !.content_root = {<<"Hero">>}] :
        sp \in {<<"/", "root">>, <<"/", "root", "/", "root">>},
        nt \in {NoArg, {<<"Hero">>}},
        mn \in {<<>>, << <<"mtl">> >>}}

\* the arguments of the call of line 448 (after a flatten under the SkelRoot)
FlattenCallArgs ==
    {[NoJointArg EXCEPT !.strip_prefix = <<"/", "root", "/", "Scene">>,
                        !.replacement_prefix = {<<"/", "root">>},
                        !.relative_strip_prefix = {<<"Scene">>}]}

\* lines 701-711: one token of a joints attribute is remapped
JointRemap ==
    /\ j_pc = "token"
    /\ j_out' = remap_skeleton_joint_token(j_arg)
    /\ j_pc' = "done"
    /\ UNCHANGED j_arg
    /\ JointFrame

JointIdle ==
    /\ j_pc = "idle"
    /\ j_arg = NoJointArg
    /\ j_out = <<>>

JointInit ==
    /\ j_pc = "token"
    /\ \E a \in StripCallArgs \cup FlattenCallArgs, token \in JointTokens,
          token_valid \in BOOLEAN, prefixed_valid \in BOOLEAN :
        /\ a.nest_target # NoArg => a.mtl_names # <<>>
        /\ j_arg = [a EXCEPT !.token = token, !.token_valid = token_valid,
                             !.prefixed_valid = prefixed_valid]
    /\ j_out = <<>>

JointNext ==
    \/ JointRemap

-----------------------------------------------------------------------------
(* _strip_root_wrapper on a document whose /root is a SkelRoot:            *)
(* _flatten_scene_wrapper_under_skel_root and _move_children_to_parent     *)

\* child_type == "Skeleton": the exporter gives the Skeleton prim this name
SkeletonTyped(name) == name = "Skel"

\* re.match(r"^scene($|_)", candidate, re.IGNORECASE)
is_scene_wrapper(name) == name \in {"Scene_A", "scene"}

\* lines 397-414: a child named Bones or of type Skeleton
has_skeleton_scope(root_children) ==
    \E i \in 1..Len(root_children) :
        root_children[i] = "Bones" \/ SkeletonTyped(root_children[i])

\* lines 398-414: the children that are neither material scopes, Bones, root,
\* Skeleton prims nor classes
content_candidates(root_children) ==
    SelectSeq(root_children,
              LAMBDA n : /\ n \notin mtl_scope_names
                         /\ n # "Bones"
                         /\ n # "root"
                         /\ ~SkeletonTyped(n)
                         /\ ~StartsWithClassPrefix(n))

\* lines 416-423: scene_wrapper_name, None when there is none
scene_wrapper_name(doc) ==
    LET root_children == nameChildren(doc, Root)
        candidates == content_candidates(root_children)
    IN  IF /\ has_skeleton_scope(root_children)
           /\ Len(candidates) = 1
           /\ is_scene_wrapper(candidates[1])
           /\ nameChildren(doc, Root \o <<candidates[1]>>) # <<>>
        THEN candidates[1]
        ELSE None

\* lines 347-353: the batch of _move_children_to_parent
MoveChildrenEdit(doc, src_parent_path, dst_parent_path) ==
    LET child_names == nameChildren(doc, src_parent_path)
    IN  [i \in 1..Len(child_names) |->
            [src |-> src_parent_path \o <<child_names[i]>>,
             dst |-> dst_parent_path \o <<child_names[i]>>]]

\* lines 219-246 and 375-380: the wrapper is found; an empty wrapper returns
\* at line 240; a nested /root/root wrapper is collapsed into /root first
FlattenBegin ==
    /\ f_pc = "start"
    /\ LET current_path == DeepestWrapper(f_doc, Root)
       IN  IF nameChildren(f_doc, current_path) = <<>>
           THEN /\ f_pc' = "done"
                /\ UNCHANGED <<f_phase, f_src>>
           ELSE IF current_path # Root
           THEN /\ f_pc' = "move"
                /\ f_phase' = "collapse"
                /\ f_src' = current_path
           ELSE /\ f_pc' = "scan"
                /\ UNCHANGED <<f_phase, f_src>>
    /\ UNCHANGED <<f_doc, f_default, f_names, f_i, f_moved, f_hist>>
    /\ FlattenFrame

\* lines 339-357: layer.Apply(edit) returns True, every child moved
MoveApplyOk ==
    /\ f_pc = "move"
    /\ LET edit == MoveChildrenEdit(f_doc, f_src, Root)
       IN  /\ ApplyEdits(f_doc, edit).ok
           /\ f_doc' = ApplyEdits(f_doc, edit).doc
           /\ f_moved' = nameChildren(f_doc, f_src)
    /\ f_pc' = "remove"
    /\ UNCHANGED <<f_default, f_phase, f_src, f_names, f_i, f_hist>>
    /\ FlattenFrame

\* lines 355-360: layer.Apply(edit) returns False, the copy loop is entered
MoveApplyFail ==
    /\ f_pc = "move"
    /\ f_names' = nameChildren(f_doc, f_src)
    /\ f_i' = 1
    /\ f_moved' = <<>>
    /\ f_pc' = "copy"
    /\ UNCHANGED <<f_doc, f_default, f_phase, f_src, f_hist>>
    /\ FlattenFrame

\* lines 361-367: one turn of the copy loop; the source is removed only when
\* the copy succeeded
MoveCopy ==
    /\ f_pc = "copy"
    /\ LET src == f_src \o <<f_names[f_i]>>
           dst == Root \o <<f_names[f_i]>>
       IN  \E ok \in BOOLEAN :
            /\ ok => CanCopy(f_doc, src, dst)
            /\ f_doc' = IF ok THEN RemovePrim(CopySpec(f_doc, src, dst), src) ELSE f_doc
            /\ f_moved' = IF ok THEN Append(f_moved, f_names[f_i]) ELSE f_moved
            /\ f_hist' = IF ok THEN f_hist ELSE [f_hist EXCEPT !.copy_failed = TRUE]
    /\ IF f_i < Len(f_names)
       THEN f_i' = f_i + 1 /\ f_pc' = "copy"
       ELSE f_i' = 1 /\ f_pc' = "remove"
    /\ UNCHANGED <<f_default, f_phase, f_src, f_names>>
    /\ FlattenFrame

\* lines 381-384 and 430-434: self.stage.RemovePrim of the emptied wrapper
RemoveWrapper ==
    /\ f_pc = "remove"
    /\ f_doc' = RemovePrim(f_doc, f_src)
    /\ f_pc' = IF f_phase = "collapse" THEN "scan"
               ELSE IF f_moved # <<>> THEN "remap" ELSE "setdefault"
    /\ f_hist' = IF f_phase = "flatten" THEN [f_hist EXCEPT !.flattened = TRUE] ELSE f_hist
    /\ UNCHANGED <<f_default, f_phase, f_src, f_names, f_i, f_moved>>
    /\ FlattenFrame

\* lines 386-428: the children of /root are looked at; no children sets the
\* default prim and returns, a scene wrapper is flattened
ScanRoot ==
    /\ f_pc = "scan"
    /\ IF Root \notin f_doc.nodes
       THEN /\ f_pc' = "done"
            /\ UNCHANGED <<f_default, f_phase, f_src>>
       ELSE IF nameChildren(f_doc, Root) = <<>>
       THEN /\ f_default' = "root"
            /\ f_pc' = "done"
            /\ UNCHANGED <<f_phase, f_src>>
       ELSE IF scene_wrapper_name(f_doc) # None
       THEN /\ f_pc' = "move"
            /\ f_phase' = "flatten"
            /\ f_src' = Root \o <<scene_wrapper_name(f_doc)>>
            /\ UNCHANGED f_default
       ELSE /\ f_pc' = "setdefault"
            /\ UNCHANGED <<f_default, f_phase, f_src>>
    /\ UNCHANGED <<f_doc, f_names, f_i, f_moved, f_hist>>
    /\ FlattenFrame

\* lines 436-447: the references below the scene wrapper are remapped to /root
FlattenRemap ==
    /\ f_pc = "remap"
    /\ f_doc' = remap_paths_in_place(f_doc, f_src, None, <<>>, {Root})
    /\ f_pc' = "setdefault"
    /\ UNCHANGED <<f_default, f_phase, f_src, f_names, f_i, f_moved, f_hist>>
    /\ FlattenFrame

\* lines 459-460: layer.defaultPrim = "root"
FlattenSetDefault ==
    /\ f_pc = "setdefault"
    /\ f_default' = "root"
    /\ f_pc' = "done"
    /\ UNCHANGED <<f_doc, f_phase, f_src, f_names, f_i, f_moved, f_hist>>
    /\ FlattenFrame

\* names the exporter gives to the children of a SkelRoot
SkelChildNames == {"Bones", "Skel", "Scene_A", "scene", "Hero", "mtl"}

\* names of the prims inside a scene wrapper
SceneKidNames == {"Mesh", "Bones"}

\* sequences of distinct names of a set, at most n long
NameLists(names, n) ==
    UNION {{s \in [1..k -> names] : \A i, j \in 1..k : i # j => s[i] # s[j]} :
              k \in 0..n}

\* an exported skeletal document: a chain of depth wrappers, the children in
\* order, the kids below the child Scene_A
SkelDoc(depth, children, kids) ==
    LET w == WrapperChain(depth)
        scene == w \o <<"Scene_A">>
    IN  [nodes |-> {WrapperChain(d) : d \in 1..depth}
                   \cup {w \o <<children[i]>> : i \in 1..Len(children)}
                   \cup (IF scene \in {w \o <<children[i]>> : i \in 1..Len(children)}
                         THEN {scene \o <<kids[i]>> : i \in 1..Len(kids)} ELSE {}),
         cls |-> {},
         rels |-> << >>,
         order |-> children \o <<"root">>
                   \o SelectSeq(kids, LAMBDA n :
                                   \A i \in 1..Len(children) : children[i] # n)]

FlattenIdle ==
    /\ f_pc = "idle"
    /\ f_doc = [nodes |-> {}, cls |-> {}, rels |-> << >>, order |-> <<>>]
    /\ f_default = None
    /\ f_phase = "none"
    /\ f_src = <<>>
    /\ f_names = <<>>
    /\ f_i = 1
    /\ f_moved = <<>>
    /\ f_hist = [flattened |-> FALSE, copy_failed |-> FALSE,
                 doc0 |-> [nodes |-> {}, cls |-> {}, rels |-> << >>, order |-> <<>>]]

\* the document handed to the chaser: one relationship at most, on /root,
\* whose target is a prim below the wrapper
FlattenInit ==
    /\ f_pc = "start"
    /\ \E depth \in 1..2, children \in NameLists(SkelChildNames, MaxSkelChildren),
          kids \in NameLists(SceneKidNames, 2) :
        LET d == SkelDoc(depth, children, kids)
        IN  \E rels \in {<< >>} \cup
                  {[o \in {Root} |-> <<[prim |-> p, prop |-> FALSE]>>] :
                      p \in {q \in d.nodes : Len(q) > depth}} :
              /\ f_doc = [d EXCEPT !.rels = rels]
              /\ f_hist = [flattened |-> FALSE, copy_failed |-> FALSE,
                           doc0 |-> [d EXCEPT !.rels = rels]]
    /\ f_default = "root"
    /\ f_phase = "none"
    /\ f_src = <<>>
    /\ f_names = <<>>
    /\ f_i = 1
    /\ f_moved = <<>>

FlattenNext ==
    \/ FlattenBegin
    \/ MoveApplyOk
    \/ MoveApplyFail
    \/ MoveCopy
    \/ RemoveWrapper
    \/ ScanRoot
    \/ FlattenRemap
    \/ FlattenSetDefault

-----------------------------------------------------------------------------
(* Suffix parser runs: a name is parsed, then its base is parsed again *)

ParseIdle ==
    /\ p_pc = "idle"
    /\ p_name = <<>>
    /\ p_first = NoResult
    /\ p_second = NoResult

ParseInit ==
    /\ p_pc = "input"
    /\ \E k \in 0..MaxNameLen : p_name \in [1..k -> ParseAlphabet]
    /\ p_first = NoResult
    /\ p_second = NoResult

Parse ==
    /\ p_pc = "input"
    /\ p_first' = parse_name_suffixes(p_name)
    /\ p_pc' = "parsed"
    /\ UNCHANGED <<p_name, p_second>>
    /\ ParseFrame

Reparse ==
    /\ p_pc = "parsed"
    /\ p_second' = parse_name_suffixes(p_first.base)
    /\ p_pc' = "reparsed"
    /\ UNCHANGED <<p_name, p_first>>
    /\ ParseFrame

ParseNext == Parse \/ Reparse

InitParse == ParseInit /\ StripIdle /\ VariantIdle /\ AssembleIdle /\ HookIdle /\ JointIdle /\ FlattenIdle

SpecParse == InitParse /\ [][ParseNext]_vars

InitStrip == StripInit /\ ParseIdle /\ VariantIdle /\ AssembleIdle /\ HookIdle /\ JointIdle /\ FlattenIdle

SpecStrip == InitStrip /\ [][StripNext]_vars

InitVariant == VariantInit /\ ParseIdle /\ StripIdle /\ AssembleIdle /\ HookIdle /\ JointIdle /\ FlattenIdle

SpecVariant == InitVariant /\ [][VariantNext]_vars

InitAssemble == AssembleInit /\ ParseIdle /\ StripIdle /\ VariantIdle /\ HookIdle /\ JointIdle /\ FlattenIdle

SpecAssemble == InitAssemble /\ [][AssembleNext]_vars

InitAnyTable ==
    TableInit /\ ParseIdle /\ StripIdle /\ VariantIdle /\ HookIdle /\ JointIdle /\ FlattenIdle

SpecAnyTable == InitAnyTable /\ [][AssembleNext]_vars

InitCycleTable ==
    CycleInit /\ ParseIdle /\ StripIdle /\ VariantIdle /\ HookIdle /\ JointIdle /\ FlattenIdle

\* the run is a sequential program: it takes its next step as long as it
\* has one
SpecCycleTable == InitCycleTable /\ [][HierarchyNext]_vars /\ WF_vars(HierarchyNext)

InitHook == HookInit /\ ParseIdle /\ StripIdle /\ VariantIdle /\ AssembleIdle /\ JointIdle /\ FlattenIdle

SpecHook == InitHook /\ [][HookNext]_vars

InitJoint ==
    JointInit /\ ParseIdle /\ StripIdle /\ VariantIdle /\ AssembleIdle /\ HookIdle /\ FlattenIdle

SpecJoint == InitJoint /\ [][JointNext]_vars

InitFlatten ==
    FlattenInit /\ ParseIdle /\ StripIdle /\ VariantIdle /\ AssembleIdle /\ HookIdle /\ JointIdle

SpecFlatten == InitFlatten /\ [][FlattenNext]_vars

-----------------------------------------------------------------------------
(* Claims on the suffix parser *)

\* C6: the parser is idempotent on its base output: parsing the base that a
\* first parse returned yields (base, no purpose, no variant, payload false).
C6_Idempotent ==
    p_pc = "reparsed" =>
        p_second = [base |-> p_first.base, purpose |-> None,
                    variant |-> NoVariant, is_payload |-> FALSE]

\* a name in the documented order VARIANT, PURPOSE, PAYLOAD, split by the grammar:
\* base (no marker in it), optional variant marker and alphanumeric tag,
\* optional purpose marker, optional payload marker
GrammarSplits(name) ==
    {s \in [b : 0..Len(name), v : BOOLEAN, p : BOOLEAN, y : BOOLEAN] :
        LET n == Len(name)
            tagEnd == n - (IF s.y THEN 1 ELSE 0) - (IF s.p THEN 1 ELSE 0)
        IN  /\ \A k \in 1..s.b : name[k] \notin Markers
            /\ s.y => (n >= 1 /\ name[n] \in PayloadMarkers)
            /\ s.p => (tagEnd + 1 >= 1 /\ tagEnd + 1 <= n
                       /\ name[tagEnd + 1] \in PurposeMarkers)
            /\ IF s.v
               THEN /\ s.b + 1 <= tagEnd
                    /\ name[s.b + 1] \in VariantMarkers
                    /\ \A k \in (s.b + 2)..tagEnd : name[k] \in AlnumChars
               ELSE s.b = tagEnd}

Expected(name, s) ==
    LET n == Len(name)
        tagEnd == n - (IF s.y THEN 1 ELSE 0) - (IF s.p THEN 1 ELSE 0)
        tag == SubSeq(name, s.b + 2, tagEnd)
    IN  [base |-> SubSeq(name, 1, s.b),
         purpose |-> IF s.p THEN Lower(name[tagEnd + 1]) ELSE None,
         variant |-> IF ~s.v THEN NoVariant ELSE IF tag = <<>> THEN <<"1">> ELSE tag,
         is_payload |-> s.y]

\* C7: for every name of the form base + optional _VARIANT<tag> + optional
\* purpose marker + optional _PAYLOAD, the parser returns the base, the
\* lower-cased purpose, the tag ("1" for an empty tag) and the payload flag;
\* the purpose marker is never absorbed into the variant tag.
C7_GrammarParsed ==
    p_pc = "parsed" =>
        \A s \in GrammarSplits(p_name) : p_first = Expected(p_name, s)

\* a name with a tagged variant marker followed by a purpose marker was parsed
C7_Witness ==
    /\ p_pc = "parsed"
    /\ p_name = <<"A", "_variant", "A", "1", "_RENDER">>
    /\ p_first = [base |-> <<"A">>, purpose |-> "render",
                  variant |-> <<"A", "1">>, is_payload |-> FALSE]

-----------------------------------------------------------------------------
(* Claims on _strip_root_wrapper *)

\* C1: on every path of the non-skeletal strip, the default entry is set
\* before the /root wrapper is deleted: no state has the wrapper gone and the
\* default entry not yet designated.
C1_DefaultBeforeDelete ==
    (s_pc # "idle" /\ Root \notin s_doc.nodes) => s_hist.designated

\* C2: after the strip and the remap, the number of relationship and
\* connection targets that name an existing prim is what it was before.
C2_NoNewDangling ==
    s_pc = "done" => ResolvedCount(s_doc) = ResolvedCount(s_hist.doc0)

\* the material-like children M of the wrapper, each with all below it, sit
\* under the path parent in the document
MtlUnder(doc, loc0, parent) ==
    \A i \in 1..Len(loc0.mtl_children) :
        \A p \in Subtree(s_hist.doc0, loc0.current_path \o <<loc0.mtl_children[i]>>) :
            Rebase(p, loc0.current_path, parent) \in doc.nodes

-----------------------------------------------------------------------------
(* Claims about _process_variants *)

\* the variants of the variant set on a prim, and its selection
VariantsOn(doc, parent) == {v.variant : v \in {w \in doc.variants : w.parent = parent}}
SelectionOn(doc, parent) == {s.variant : s \in {t \in doc.sel : t.parent = parent}}

\* C5: when _process_variants has returned, for every (parent path, base)
\* group with at least 2 members that it converted, the variant set on the
\* parent has as many variants as the group has members and the selected
\* variant is the tag of the first discovered member.
C5_CountAndSelection ==
    v_pc = "done" =>
        \A k \in v_hist.converted :
            /\ Cardinality(VariantsOn(v_doc, v_groups[k].parent)) = Len(v_groups[k].variants)
            /\ SelectionOn(v_doc, v_groups[k].parent) = {v_groups[k].variants[1].var_name}

-----------------------------------------------------------------------------
(* Claims about auto_assemble_stage *)

\* the prims authored directly under a prim
ChildrenOf(stage, p) == {q \in DOMAIN stage : Len(q) = Len(p) + 1 /\ Front(q) = p}

\* C3: in every assembled stage (hierarchy mode and flat mode, prims with a
\* variant set included) a prim on which instanceable is set has no child
\* authored under it.
C3_InstanceableHasNoChildren ==
    a_pc = "done" =>
        \A p \in DOMAIN a_stage :
            a_stage[p].instanceable => ChildrenOf(a_stage, p) = {}

\* C4: for every sibling group with at least 2 variant-tagged members that
\* was turned into a variant set, the set has as many variants as the group
\* has members, and its selection is one of the variants added.
C4_VariantCountIsGroupSize ==
    a_pc = "done" =>
        \A g \in a_hist :
            Len(variants_of(g.members)) >= 2 =>
                /\ Cardinality(a_stage[g.path].variants) = Len(g.members)
                /\ a_stage[g.path].selection \in a_stage[g.path].variants

\* the lists of siblings of an export directory: the roots and the children
\* of every entry of the hierarchy table, or all the files without a table
SiblingLists(in) ==
    IF in.flat THEN {in.names}
    ELSE {get_root_nodes(in)} \cup {hierarchy_children(in, in.names[i]) : i \in 1..Len(in.names)}

\* members that differ only by purpose: at least two, every member has a
\* purpose and its source document, none has a variant tag, no two share a
\* purpose
DifferOnlyByPurpose(in, group) ==
    /\ Len(group) >= 2
    /\ \A k \in 1..Len(group) :
          has_purpose(group[k]) /\ ~has_variant(group[k]) /\ find_usd_file(in, group[k])
    /\ Cardinality(purposes_of(group)) = Len(group)

\* a container named by the base with one child per purpose, each with the
\* purpose attribute and one arc to the member's document, and no variant set
PurposeContainer(stage, c, key, group) ==
    /\ Last(c) = make_valid_prim_name(key)
    /\ ~stage[c].vset
    /\ ChildrenOf(stage, c) = {c \o << <<p>> >> : p \in purposes_of(group)}
    /\ \A k \in 1..Len(group) :
          LET q == c \o << <<parse_name_suffixes(group[k]).purpose>> >>
          IN  /\ q \in DOMAIN stage
              /\ stage[q].purpose = parse_name_suffixes(group[k]).purpose
              /\ ~stage[q].vset
              /\ Cardinality(stage[q].arcs) = 1
              /\ \A a \in stage[q].arcs : a.file = group[k] /\ a.variant = NoVariant

\* C8: for every sibling group whose members differ only by purpose, the
\* assembled stage has one container named by the base, with exactly one
\* child per purpose that carries the purpose attribute and one
\* reference/payload arc to the member's document, and no variant set on the
\* container or its children.
C8_PurposeGroupContainer ==
    a_pc = "done" =>
        \A siblings \in SiblingLists(a_in) :
            LET groups == get_sibling_groups(siblings)
            IN  \A k \in 1..Len(groups) :
                    DifferOnlyByPurpose(a_in, groups[k].members) =>
                        \E c \in DOMAIN a_stage :
                            PurposeContainer(a_stage, c, groups[k].key, groups[k].members)

\* C9: for every variant-only sibling group the selection of its variant set
\* is the variant of the member without a variant tag when there is one,
\* otherwise the variant of the first member, and it names a variant of the set.
C9_DefaultSelection ==
    a_pc = "done" =>
        \A g \in a_hist :
            g.branch = "variants" =>
                /\ a_stage[g.path].selection =
                      IF \E k \in 1..Len(g.members) : ~has_variant(g.members[k])
                      THEN <<"default">>
                      ELSE parse_name_suffixes(g.members[1]).variant
                /\ a_stage[g.path].selection \in a_stage[g.path].variants

-----------------------------------------------------------------------------
(* Claims about PostExport *)

\* C11: whatever step raises, every later step is still entered in the fixed
\* order, and the hook returns True: once the hook has returned, the steps
\* entered are props, strip, variants and the value is True; no state is
\* reached where the hook stopped without returning.
C11_PhasesIsolated ==
    /\ h_pc \in {"idle", "props", "strip", "variants", "return", "returned"}
    /\ h_pc = "returned" => h_log = Phases /\ h_ret = "True"
    /\ h_pc = "variants" => h_log = <<"props", "strip">>
    /\ h_pc = "strip" => h_log = <<"props">>

\* the hook returned although every step raised
C11_Witness ==
    h_pc = "returned" /\ h_raised = {"props", "strip", "variants"}

\* C12: every name the run reached and whose source document is not found,
\* as a root, a plain child, a member of a purpose bucket or a member of a
\* variant group, has an organizational prim named after it without any
\* reference or payload arc in the assembled stage.
C12_MissingDocumentContainer ==
    a_pc = "done" =>
        \A n \in a_seen :
            ~find_usd_file(a_in, n) =>
                \E p \in DOMAIN a_stage :
                    /\ Last(p) = make_valid_prim_name(n)
                    /\ a_stage[p].arcs = {}

\* the sibling groups of `children` that validate_variants objects to: a
\* variant-tagged member has a hierarchy child of the same base that is
\* variant-tagged too
IllegalNesting(in, children, base) ==
    \E k \in 1..Len(children) :
        /\ has_variant(children[k])
        /\ parse_name_suffixes(children[k]).base = base
        /\ LET below == hierarchy_children(in, children[k])
           IN  \E j \in 1..Len(below) :
                  /\ has_variant(below[j])
                  /\ parse_name_suffixes(below[j]).base = base

\* C13: when the children of an assembled root contain a group with illegal
\* variant nesting, every child of the other sibling groups is still
\* assembled.
C13_OnlyIllegalGroupSkipped ==
    (a_pc = "done" /\ ~a_in.flat) =>
        \A r \in 1..Len(get_root_nodes(a_in)) :
            LET children == hierarchy_children(a_in, get_root_nodes(a_in)[r])
            IN  \A k \in 1..Len(children) :
                    \/ IllegalNesting(a_in, children, parse_name_suffixes(children[k]).base)
                    \/ children[k] \in a_seen

\* where the spec at p is once the batch is done: moved with the entry whose
\* source it lies under, or left where it is
Landing(edits, p) ==
    IF \E j \in 1..Len(edits) : Under(p, edits[j].src)
    THEN LET j == CHOOSE j \in 1..Len(edits) : Under(p, edits[j].src)
         IN  Rebase(p, edits[j].src, edits[j].dst)
    ELSE p

\* C14: the batch of moves handed to layer.Apply has no destination
\* collision: no two entries share a destination, and no destination is the
\* place of a spec that stays or that another entry brings along.
C14_NoDestinationCollision ==
    s_pc = "apply" =>
        LET edits == BuildEdit(s_loc)
        IN  /\ \A i, j \in 1..Len(edits) : i # j => edits[i].dst # edits[j].dst
            /\ \A i \in 1..Len(edits) :
                  \A p \in s_doc.nodes :
                      ~Under(p, edits[i].src) => Landing(edits, p) # edits[i].dst

\* the stated precedence: a path of or under stripPrefix/<m> is nested under
\* the nest target, any other path of or under stripPrefix gets the
\* replacement prefix, every other path is unchanged
remap_precedence(t, strip_prefix, nest_target, mtl_names, replacement_prefix) ==
    LET under == {k \in 1..Len(mtl_names) : Under(t.prim, strip_prefix \o <<mtl_names[k]>>)}
    IN  IF nest_target # None /\ under # {}
        THEN LET k == CHOOSE i \in under : \A j \in under : i <= j
             IN  [changed |-> TRUE,
                  path |-> ReplacePrefix(t, strip_prefix \o <<mtl_names[k]>>,
                                         <<nest_target, mtl_names[k]>>)]
        ELSE IF Under(t.prim, strip_prefix)
        THEN [changed |-> TRUE,
              path |-> ReplacePrefix(t, strip_prefix,
                          IF replacement_prefix = NoArg THEN <<>>
                          ELSE CHOOSE r \in replacement_prefix : TRUE)]
        ELSE [changed |-> FALSE, path |-> t]

\* C15: for every target the strip hands to _remap_path_str, with the
\* arguments of lines 319-322, the result follows the stated precedence.
C15_RemapPrecedence ==
    s_pc = "remap" =>
        LET nest_target == IF s_loc.nest_mtl THEN s_loc.default_name ELSE None
        IN  \A o \in DOMAIN s_doc.rels :
                \A i \in 1..Len(s_doc.rels[o]) :
                    remap_path_str(s_doc.rels[o][i], s_loc.current_path, nest_target,
                                   s_loc.mtl_children, NoArg)
                    = remap_precedence(s_doc.rels[o][i], s_loc.current_path, nest_target,
                                       s_loc.mtl_children, NoArg)

\* C16: the remapped joint token keeps the style of the token: it starts
\* with "/" exactly when the token did, and a token that is not empty does
\* not become empty.
C16_JointStylePreserved ==
    j_pc = "done" =>
        /\ StartsWith(j_out, Slash) <=> StartsWith(j_arg.token, Slash)
        /\ j_arg.token # <<>> => j_out # <<>>

\* C17: for every name with a source document that the run created a prim
\* for, every hierarchy child of the name was reached; and when the entry
\* prim of its document is instanceable, the created prim is instanceable
\* exactly when the name has no hierarchy child, and then has no prim below.
C17_ChildrenKept ==
    (a_pc = "done" /\ ~a_in.flat) =>
        \A n \in DOMAIN a_created :
            (find_usd_file(a_in, n) /\ a_created[n] \in DOMAIN a_stage) =>
                LET children == hierarchy_children(a_in, n)
                    path == a_created[n]
                IN  /\ \A k \in 1..Len(children) : children[k] \in a_seen
                    /\ read_prim_custom_data(a_in, n).instanceable =>
                          IF children # <<>>
                          THEN ~a_stage[path].instanceable
                          ELSE /\ a_stage[path].instanceable
                               /\ \A q \in DOMAIN a_stage : Under(q, path) => q = path

\* C18: a name or group key recorded in created_prims keeps the path it was
\* recorded with: no later step of the recursion records a different path
\* for it.
C18_RecordedPathKept ==
    [][\A n \in DOMAIN a_created :
          n \in DOMAIN a_created' /\ a_created'[n] = a_created[n]]_vars

\* the sibling group of a name: the names of the same base under the same
\* hierarchy parent, or in the same directory when there is no hierarchy
PurposeSiblings(in, name) ==
    LET same(n) == parse_name_suffixes(n).base = parse_name_suffixes(name).base
    IN  IF in.flat THEN SelectSeq(in.names, same)
        ELSE SelectSeq(hierarchy_children(in, in.parent[name]), same)

HasProxyOrGuide(group) == purposes_of(group) \cap {"proxy", "guide"} # {}

\* C19: in a purpose-grouped sibling group an item without purpose suffix is
\* referenced by the render bucket exactly when the group has a proxy or
\* guide member, and by the bucket named default otherwise; the default
\* bucket has no purpose attribute.
C19_DefaultBucketMerge ==
    \A p \in DOMAIN a_stage :
        \A arc \in a_stage[p].arcs :
            /\ Last(p) = <<"default">> =>
                  /\ a_stage[p].purpose = None
                  /\ ~has_purpose(arc.file)
                  /\ ~HasProxyOrGuide(PurposeSiblings(a_in, arc.file))
            /\ Last(p) = <<"render">> =>
                  \/ parse_name_suffixes(arc.file).purpose = "render"
                  \/ /\ ~has_purpose(arc.file)
                     /\ HasProxyOrGuide(PurposeSiblings(a_in, arc.file))

\* a finished run whose render bucket references an item without purpose
\* suffix next to a proxy bucket
C19_Witness ==
    /\ a_pc = "done"
    /\ \E p \in DOMAIN a_stage :
          /\ Last(p) = <<"render">>
          /\ a_stage[p].purpose = "render"
          /\ \E arc \in a_stage[p].arcs : ~has_purpose(arc.file)
          /\ (Parent(p) \o << <<"proxy">> >>) \in DOMAIN a_stage

\* C20: when _process_variants is done, no parent, the document root
\* included, has two children whose names are the same base followed by a
\* variant suffix.
C20_NoVariantSiblingsLeft ==
    v_pc = "done" =>
        \A p, q \in v_doc.prims :
            (p # q /\ Parent(p) = Parent(q)) =>
                ~ /\ variant_child_match(Last(p)) # 0
                  /\ variant_child_match(Last(q)) # 0
                  /\ match_base(Last(p)) = match_base(Last(q))

-----------------------------------------------------------------------------
(* Claims about the skeletal flatten *)

\* the children directly beneath /root that qualify as scene wrapper: the
\* name matches the scene pattern and the child has children of its own
QualifyingChildren(doc) ==
    {n \in {nameChildren(doc, Root)[i] : i \in 1..Len(nameChildren(doc, Root))} :
        is_scene_wrapper(n) /\ nameChildren(doc, Root \o <<n>>) # <<>>}

\* C21: on a document whose /root is a SkelRoot the strip keeps /root and
\* ends with the default prim root; with exactly one qualifying child
\* beneath /root its children are one level up, the child is gone and the
\* targets below it point below /root; otherwise no prim has moved.
C21_SkelRootFlatten ==
    f_pc = "done" =>
        LET doc0 == f_hist.doc0
            q == QualifyingChildren(doc0)
        IN  /\ Root \in f_doc.nodes
            /\ f_default = "root"
            /\ IF Cardinality(q) = 1
               THEN LET scene == Root \o <<CHOOSE n \in q : TRUE>>
                    IN  /\ scene \notin f_doc.nodes
                        /\ \A p \in Subtree(doc0, scene) :
                              p # scene => Rebase(p, scene, Root) \in f_doc.nodes
                        /\ \A o \in DOMAIN f_doc.rels :
                              \A i \in 1..Len(f_doc.rels[o]) :
                                  ~Under(f_doc.rels[o][i].prim, scene)
               ELSE f_doc.nodes = doc0.nodes

-----------------------------------------------------------------------------
(* Claims about hierarchy tables with arbitrary parent links *)

\* C22: once the table is read, build_hierarchy_tree has one entry per
\* declared name, c is among the children of p exactly when the parent of c
\* is p and p is declared, and the roots are the names with a null parent; a
\* name whose parent is not declared is in no children list and is no root.
C22_TreeOfTable ==
    (a_pc # "start" /\ ~a_in.flat) =>
        LET tree == build_hierarchy_tree(a_in)
            roots == get_root_nodes(a_in)
            kids(p) == {tree[p].children[i] : i \in 1..Len(tree[p].children)}
        IN  /\ DOMAIN tree = Declared(a_in)
            /\ \A p, c \in Declared(a_in) : c \in kids(p) <=> a_in.parent[c] = p
            /\ \A p \in Declared(a_in) : kids(p) \subseteq Declared(a_in)
            /\ {roots[i] : i \in 1..Len(roots)}
                  = {n \in Declared(a_in) : a_in.parent[n] = NoName}
            /\ \A c \in Declared(a_in) :
                  (a_in.parent[c] # NoName /\ a_in.parent[c] \notin Declared(a_in)) =>
                      /\ \A p \in Declared(a_in) : c \notin kids(p)
                      /\ \A i \in 1..Len(roots) : roots[i] # c

\* a finished run on a table with a linked child and an entry whose parent
\* is not declared
C22_Witness ==
    /\ a_pc = "done"
    /\ ~a_in.flat
    /\ \E c \in Declared(a_in) :
          a_in.parent[c] # NoName /\ a_in.parent[c] \notin Declared(a_in)
    /\ \E p \in Declared(a_in) : build_hierarchy_tree(a_in)[p].children # <<>>

RECURSIVE StrippedBase(_)

\* a name with all its suffixes stripped: the suffix steps of
\* parse_name_suffixes repeated until none applies
StrippedBase(name) ==
    IF parse_name_suffixes(name).base = name THEN name
    ELSE StrippedBase(parse_name_suffixes(name).base)

\* the key of the group of get_sibling_groups that holds a name
KeyOf(groups, name) ==
    (CHOOSE g \in {groups[k] : k \in 1..Len(groups)} :
        \E m \in 1..Len(g.members) : g.members[m] = name).key

\* C23: siblings whose names have the same base once all suffixes are
\* stripped fall in one group, keyed by that base, whatever the order of the
\* purpose and variant markers.
C23_GroupKeyIsStrippedBase ==
    a_pc = "done" =>
        \A sibs \in SiblingLists(a_in) :
            LET groups == get_sibling_groups(sibs)
            IN  \A i \in 1..Len(sibs) :
                    KeyOf(groups, sibs[i]) = StrippedBase(sibs[i])

\* the sibling groups of a run that are assembled by purpose: two or more
\* members, one of them with a purpose suffix
PurposeGroups(in) ==
    UNION {LET groups == get_sibling_groups(sibs)
           IN  {groups[k].members : k \in {j \in 1..Len(groups) :
                    /\ Len(groups[j].members) > 1
                    /\ purposes_of(groups[j].members) # {}}} :
           sibs \in SiblingLists(in)}

\* C24: every member of a purpose-grouped sibling group the run reached
\* whose source document is found is referenced from the assembled stage,
\* by a prim of its own or by a variant of its own, also when its bucket
\* holds two or more members and none of them is variant-tagged.
C24_NoBucketMemberLeftOut ==
    a_pc = "done" =>
        \A group \in PurposeGroups(a_in) :
            \A k \in 1..Len(group) :
                (group[k] \in a_seen /\ find_usd_file(a_in, group[k])) =>
                    \E p \in DOMAIN a_stage :
                        \E arc \in a_stage[p].arcs : arc.file = group[k]

RECURSIVE AncestorChain(_, _, _)

\* a name followed by its parent, the parent of that, and so on, while the
\* names have an entry; at most `fuel` names
AncestorChain(in, name, fuel) ==
    IF fuel = 0 \/ name \notin Declared(in) THEN <<>>
    ELSE <<name>> \o (IF in.parent[name] = NoName THEN <<>>
                      ELSE AncestorChain(in, in.parent[name], fuel - 1))

\* the name is reached from a root through declared parent links
ReachableFromRoot(in, name) ==
    LET chain == AncestorChain(in, name, Len(in.names))
    IN  chain # <<>> /\ in.parent[chain[Len(chain)]] = NoName

\* C25: in hierarchy mode every entry reachable from a root through declared
\* parent links is recorded in created_prims, unless an entry above it was
\* made instanceable or it lies in or below a sibling group rejected for
\* illegal variant nesting; the hierarchy children of the members of purpose
\* groups and of variant groups are among them.
C25_ReachableEntriesCreated ==
    (a_pc = "done" /\ ~a_in.flat) =>
        \A n \in Declared(a_in) :
            ReachableFromRoot(a_in, n) =>
                LET chain == AncestorChain(a_in, n, Len(a_in.names))
                IN  \/ n \in DOMAIN a_created
                    \/ \E i \in 2..Len(chain) :
                          /\ chain[i] \in DOMAIN a_created
                          /\ a_created[chain[i]] \in DOMAIN a_stage
                          /\ a_stage[a_created[chain[i]]].instanceable
                    \/ \E i \in 1..(Len(chain) - 1) :
                          IllegalNesting(a_in, hierarchy_children(a_in, a_in.parent[chain[i]]),
                                         parse_name_suffixes(chain[i]).base)

\* the names create_prim_recursive is still to be entered for: the pending
\* calls and the members of the pending plain groups, in order
PendingCalls ==
    Flatten([i \in 1..Len(a_stack) |->
                IF a_stack[i].k = "call" THEN <<a_stack[i].name>>
                ELSE IF /\ a_stack[i].k = "group"
                        /\ purposes_of(a_stack[i].members) = {}
                        /\ variants_of(a_stack[i].members) = <<>>
                     THEN a_stack[i].members
                     ELSE <<>>])

\* no name is entered twice: the pending names are declared, pairwise
\* distinct, and none was entered or met as a group item before
EnteredOnce ==
    /\ \A i \in 1..Len(PendingCalls) :
          /\ PendingCalls[i] \in Declared(a_in)
          /\ PendingCalls[i] \notin a_seen
    /\ \A i, j \in 1..Len(PendingCalls) : PendingCalls[i] = PendingCalls[j] => i = j

\* C26: hierarchy assembly terminates for every hierarchy table, with parent
\* cycles, self-parented entries and undeclared parents included, and
\* create_prim_recursive is entered at most once per declared name.
C26_AssemblyTerminates ==
    /\ <>(a_pc = "done")
    /\ [][~a_in.flat => EnteredOnce']_vars

\* a finished run on a table with a parent cycle or a self-parented entry
\* next to a root that was entered
C26_Witness ==
    /\ a_pc = "done"
    /\ ~a_in.flat
    /\ a_seen # {}
    /\ \E n, m \in Declared(a_in) : a_in.parent[n] = m /\ a_in.parent[m] = n

-----------------------------------------------------------------------------
(* Claims about the two ways of _strip_root_wrapper and about failed copies *)

\* lines 297-332 on the way where layer.Apply succeeds, as a function of the
\* document at entry
AtomicOutcome(doc0) ==
    LET loc == StripLocals(doc0)
        applied == ApplyEdits(doc0, BuildEdit(loc))
        removed == IF Root \in applied.doc.nodes THEN RemovePrim(applied.doc, Root)
                   ELSE applied.doc
    IN  [ok |-> applied.ok,
         default |-> loc.default_name,
         doc |-> remap_paths_in_place(removed, loc.current_path,
                     IF loc.nest_mtl THEN loc.default_name ELSE None,
                     loc.mtl_children, NoArg)]

\* the CopySpec fallback ran and every copy succeeded
FallbackAllCopied == s_hist.path = "fallback" /\ ~s_hist.copy_failed

\* C27: on a document whose batch of moves is valid, the CopySpec fallback
\* with every copy succeeding ends with the prim paths, the default prim
\* and the relationship targets of the atomic way; and the remap of lines
\* 318-332, run after the fallback's own remap, changes no target.
C27_FallbackEqualsAtomic ==
    /\ []((s_pc = "done" /\ FallbackAllCopied /\ AtomicOutcome(s_hist.doc0).ok) =>
            /\ s_doc.nodes = AtomicOutcome(s_hist.doc0).doc.nodes
            /\ s_doc.cls = AtomicOutcome(s_hist.doc0).doc.cls
            /\ s_doc.rels = AtomicOutcome(s_hist.doc0).doc.rels
            /\ s_default = AtomicOutcome(s_hist.doc0).default)
    /\ [][(s_pc = "remap" /\ FallbackAllCopied) => s_doc'.rels = s_doc.rels]_vars

\* a finished fallback run with every copy succeeding, a nested material
\* scope and a relationship target that was remapped
C27_Witness ==
    /\ s_pc = "done"
    /\ FallbackAllCopied
    /\ AtomicOutcome(s_hist.doc0).ok
    /\ s_loc.nest_mtl
    /\ s_doc.rels # s_hist.doc0.rels
    /\ \E o \in DOMAIN s_doc.rels : s_doc.rels[o] # <<>>

\* _strip_root_fallback: every child of the wrapper is at the place it was
\* to be copied to
FallbackKeepsChildren ==
    (s_pc = "done" /\ s_hist.path = "fallback") =>
        \A i \in 1..Len(s_loc.all_children) :
            \/ <<s_loc.all_children[i]>> \in s_doc.nodes
            \/ <<s_loc.default_name, s_loc.all_children[i]>> \in s_doc.nodes

\* _process_variants: every prim of the document at entry is still a prim or
\* is the source of a copy held by a variant
VariantsKeepChildren ==
    v_pc = "done" =>
        \A p \in v_hist.doc0.prims :
            \/ p \in v_doc.prims
            \/ \E c \in v_doc.copies : Under(p, c.from)

\* _flatten_scene_wrapper_under_skel_root: every prim other than the
\* wrappers is below /root under its own name
FlattenKeepsChildren ==
    f_pc = "done" =>
        \A p \in f_hist.doc0.nodes :
            (Len(p) >= 2 /\ Last(p) # "root" /\ ~is_scene_wrapper(Last(p))) =>
                \E q \in f_doc.nodes : Len(q) >= 2 /\ Last(q) = Last(p)

\* C28: no subtree is lost when a Sdf.CopySpec fails: in _process_variants,
\* in _strip_root_fallback and in the copy loop of the skeletal flatten an
\* original prim, or the wrapper that still holds it, is removed only after
\* its copy succeeded, so every child present at entry exists at some path
\* at the end.
C28_NoSubtreeLost ==
    FallbackKeepsChildren /\ VariantsKeepChildren /\ FlattenKeepsChildren

-----------------------------------------------------------------------------
(* Claims about the default prim *)

\* C29: a stage returned by auto_assemble_stage that holds at least one prim
\* has a default prim, and the default prim is an existing root prim, with
\* and without a hierarchy table, with and without a configured name.
C29_DefaultPrimDesignated ==
    (a_pc = "done" /\ DOMAIN a_stage # {}) =>
        /\ a_default # NoPath
        /\ a_default \in DOMAIN a_stage
        /\ Len(a_default) = 1

\* C30: when the non-skeletal _strip_root_wrapper returns on a document
\* whose wrapper had a child of any kind, only material scopes or only class
\* prims included, /root no longer exists, every former child is at its new
\* path, and with a concrete content child the default prim names an
\* existing root prim that is not a class.
C30_WrapperStripped ==
    s_pc = "done" =>
        LET loc0 == StripLocals(s_hist.doc0)
        IN  (Root \in s_hist.doc0.nodes /\ loc0.all_children # <<>>) =>
                /\ Root \notin s_doc.nodes
                /\ \A i \in 1..Len(loc0.main_children) :
                      <<loc0.main_children[i]>> \in s_doc.nodes
                /\ \A i \in 1..Len(loc0.mtl_children) :
                      (IF loc0.nest_mtl
                       THEN <<loc0.default_name, loc0.mtl_children[i]>>
                       ELSE <<loc0.mtl_children[i]>>) \in s_doc.nodes
                /\ loc0.content_children # <<>> =>
                      /\ <<s_default>> \in s_doc.nodes
                      /\ <<s_default>> \notin s_doc.cls
                      /\ ~StartsWithClassPrefix(s_default)

=============================================================================
